---- MODULE Spec2Model ----
(***************************************************************************)
(* State-machine model of NTPClient (src/src/NTPClient.cpp, NTPClient.h).  *)
(*                                                                         *)
(* The client object's fields are the variables; every public method is    *)
(* one action that models the whole call, the transport and the clock      *)
(* being the environment: each attempt of a synchronization draws what the *)
(* transport does (send failure, timeout, a reply) from a small set.       *)
(*                                                                         *)
(* Numbers.  TLC integers are 32-bit signed, so a uint32_t is kept as a    *)
(* pair <<q, r>> standing for q * 10^9 + r (0 <= r < 10^9), on which the   *)
(* modulo-2^32 arithmetic of the code is carried out; int32_t and the      *)
(* time_t values the program handles fit a TLC integer.                    *)
(***************************************************************************)
EXTENDS Integers, Sequences, FiniteSets, TLC

VARIABLES
    servers,             \* _servers: sequence of NTPServer records
    initialized,         \* _initialized
    localPort,           \* _localPort
    autoSyncEnabled,     \* _autoSyncEnabled
    autoSyncInterval,    \* _autoSyncInterval
    timezone,            \* _timezone: the TimeZoneConfig in force
    lastSyncTime,        \* _lastSyncTime
    lastOffset,          \* _lastOffset
    syncCount,           \* _syncCount
    syncFailures,        \* _syncFailures
    totalSyncTime,       \* _totalSyncTime
    averageSyncTime,     \* _averageSyncTime, as <<_totalSyncTime, _syncCount>> divided
    syncCallback,        \* _syncCallback is set
    timeChangeCallback,  \* _timeChangeCallback is set
    rtcCallback,         \* _rtcCallback is set
    sysTime,             \* the system clock, seconds (time(nullptr))
    op,                  \* the last call made on the client and its arguments
    ret,                 \* what that call returned
    events               \* what that call did, in order: attempts, clock writes, callbacks

fields == <<servers, lastSyncTime, lastOffset, syncCount, syncFailures,
            totalSyncTime, averageSyncTime, sysTime>>
config == <<initialized, localPort, autoSyncEnabled, autoSyncInterval, timezone>>
hooks  == <<syncCallback, timeChangeCallback, rtcCallback>>
call   == <<op, ret, events>>
vars   == <<fields, config, hooks, call>>

-----------------------------------------------------------------------------
(* Bounds of the exploration *)

\* most records the registry is grown to
MaxRegistry == 2
\* SyncTime and SyncTimeFromServer are taken while _syncCount is below this
MaxSyncCount == 2
\* SyncTime is taken while _syncFailures is below this
MaxSyncFailures == 2
\* SyncTimeFromServer is taken while it leaves every failureCount at most this
MaxFailureCount == 3
\* adjustTime keeps the clock within this many seconds of 2024-01-01T00:00:00Z
MaxAdjusted == 3600

\* the (hostname, port) pairs registered: two on one host, one on another
Endpoints == {<<"a", 123>>, <<"a", 124>>, <<"b", 123>>}

-----------------------------------------------------------------------------
(* Program constants *)

MAX_SERVERS == 10
MAX_RETRY_COUNT == 3
DEFAULT_NTP_PORT == 123
MIN_SYNC_INTERVAL == 60
\* sizeof(NTPPacket), the 48 bytes NTP_PACKET_SIZE names
NTP_PACKET_SIZE == 48
\* the timeoutMs of syncTime() and syncTimeFromServer(hostname)
DEFAULT_TIMEOUT_MS == 5000
DEFAULT_SERVER_COUNT == 4
DEFAULT_NTP_SERVERS ==
    <<"pool.ntp.org", "time.nist.gov", "time.google.com", "time.cloudflare.com">>

-----------------------------------------------------------------------------
(* uint32_t arithmetic on <<q, r>> = q * 10^9 + r *)

Giga == 10^9

Big(q, r) == <<q, r>>

\* a non-negative TLC integer as a pair
ToBig(n) == <<n \div Giga, n % Giga>>

BigLt(a, b) == a[1] < b[1] \/ (a[1] = b[1] /\ a[2] < b[2])

BigLe(a, b) == a = b \/ BigLt(a, b)

\* 2^32 and 2^31
TwoTo32 == <<4, 294967296>>
TwoTo31 == <<2, 147483648>>

\* a + b, no reduction
BigAdd(a, b) == <<a[1] + b[1] + ((a[2] + b[2]) \div Giga), (a[2] + b[2]) % Giga>>

\* a - b for a >= b
BigMinus(a, b) == <<a[1] - b[1] + ((a[2] - b[2]) \div Giga), (a[2] - b[2]) % Giga>>

\* uint32_t subtraction: (a - b) mod 2^32
U32Sub(a, b) == IF BigLe(b, a) THEN BigMinus(a, b) ELSE BigMinus(BigAdd(a, TwoTo32), b)

\* uint32_t addition: (a + b) mod 2^32
U32Add(a, b) ==
    LET s == BigAdd(a, b) IN IF BigLe(TwoTo32, s) THEN BigMinus(s, TwoTo32) ELSE s

\* the TLC integer of a pair below 2^31
BigVal(a) == a[1] * Giga + a[2]

UINT32_MAX == <<4, 294967295>>
NTP_TIMESTAMP_DELTA == <<2, 208988800>>

-----------------------------------------------------------------------------
(* int32_t arithmetic *)

\* (int32_t)x * 1000.  Where the product leaves int32_t the multiplication
\* overflows, which C++ leaves undefined; the builds for the targets compile it
\* to the 32-bit multiply, which keeps the low 32 bits of the product (two's
\* complement), and that is the value taken here, computed on 16-bit halves.
WrapMul1000(x) ==
    LET lo  == x % 65536
        hi  == x \div 65536
        p   == lo * 1000
        nlo == p % 65536
        nhi == (hi * 1000 + (p \div 65536)) % 65536
    IN  (IF nhi >= 32768 THEN nhi - 65536 ELSE nhi) * 65536 + nlo

-----------------------------------------------------------------------------
(* float arithmetic (IEEE 754 binary32, round to nearest even)               *)
(* A float is <<sign, m, e>> = sign * m * 2^e, with 2^23 <= m < 2^24, or m = 0 *)

Pow2(k) == 2^k

\* the number of bits of n, 0 <= n < 2^31, found by halving the width
BitLen4(n) == IF n >= 4 THEN (IF n >= 8 THEN 4 ELSE 3) ELSE (IF n >= 2 THEN 2 ELSE n)
BitLen8(n) == IF n >= 16 THEN 4 + BitLen4(n \div 16) ELSE BitLen4(n)
BitLen16(n) == IF n >= 256 THEN 8 + BitLen8(n \div 256) ELSE BitLen8(n)
BitLen(n) == IF n >= 65536 THEN 16 + BitLen16(n \div 65536) ELSE BitLen16(n)

FloatZero == <<1, 0, 0>>

\* q * 2^e with the remainder r out of 2 * half dropped, rounded to nearest even
RoundEven(sign, q, r, half, e) ==
    LET up == r > half \/ (r = half /\ q % 2 = 1)
        q1 == IF up THEN q + 1 ELSE q
    IN  IF q1 = Pow2(24) THEN <<sign, Pow2(23), e + 1>> ELSE <<sign, q1, e>>

\* sign * n * 2^e for 0 <= n < 2^31, rounded to 24 bits
Normalize(sign, n, e) ==
    LET L == BitLen(n)
    IN  IF n = 0 THEN FloatZero
        ELSE IF L <= 24 THEN <<sign, n * Pow2(24 - L), e - (24 - L)>>
        ELSE RoundEven(sign, n \div Pow2(L - 24), n % Pow2(L - 24),
                       Pow2(L - 25), e + (L - 24))

\* (float)x of an int32_t
IntToFloat(x) ==
    IF x = -2147483647 - 1 THEN <<-1, Pow2(23), 8>>
    ELSE Normalize(IF x < 0 THEN -1 ELSE 1, IF x < 0 THEN -x ELSE x, 0)

\* a * b: the 48-bit product of the mantissas on 12-bit halves, then rounded
FloatMul(a, b) ==
    LET a1  == a[2] \div 4096
        a0  == a[2] % 4096
        b1  == b[2] \div 4096
        b0  == b[2] % 4096
        mid == a1 * b0 + a0 * b1
        t   == (mid % 4096) * 4096 + a0 * b0
        lo  == t % Pow2(24)
        hi  == a1 * b1 + (mid \div 4096) + (t \div Pow2(24))
        e   == a[3] + b[3]
        sg  == a[1] * b[1]
    IN  IF a[2] = 0 \/ b[2] = 0 THEN FloatZero
        ELSE IF hi >= Pow2(23)
        THEN RoundEven(sg, hi, lo, Pow2(23), e + 24)
        ELSE RoundEven(sg, 2 * hi + (lo \div Pow2(23)), lo % Pow2(23), Pow2(22), e + 23)

\* |a| >= |b|
MagGe(a, b) == b[2] = 0 \/ (a[2] # 0 /\ (a[3] > b[3] \/ (a[3] = b[3] /\ a[2] >= b[2])))

\* a + b for |a| >= |b|: b is aligned to a with three more bits, the last of
\* them sticky, and the sum is rounded
FloatAddOrdered(a, b) ==
    LET d   == IF a[3] - b[3] > 28 THEN 28 ELSE a[3] - b[3]
        bf  == b[2] * 8
        bq  == bf \div Pow2(d)
        bs  == IF bf % Pow2(d) # 0 THEN (bq \div 2) * 2 + 1 ELSE bq
        sum == IF a[1] = b[1] THEN a[2] * 8 + bs ELSE a[2] * 8 - bs
    IN  IF b[2] = 0 THEN a ELSE Normalize(a[1], sum, a[3] - 3)

FloatAdd(a, b) == IF MagGe(a, b) THEN FloatAddOrdered(a, b) ELSE FloatAddOrdered(b, a)

\* conversion to an integer type truncates toward zero
FloatToInt(f) ==
    LET mag == IF f[3] >= 0 THEN f[2] * Pow2(f[3])
               ELSE IF f[3] <= -24 THEN 0
               ELSE f[2] \div Pow2(-f[3])
    IN  f[1] * mag

\* OFFSET_FILTER_ALPHA = 0.1f and the constant 1.0f - OFFSET_FILTER_ALPHA
OFFSET_FILTER_ALPHA == <<1, 13421773, -27>>
OneMinusAlpha == <<1, 15099494, -24>>

\* (1.0f - OFFSET_FILTER_ALPHA) * avg + OFFSET_FILTER_ALPHA * v with avg and v
\* converted to float, each operation rounded to float
Ema(avg, v) ==
    FloatAdd(FloatMul(OneMinusAlpha, IntToFloat(avg)),
             FloatMul(OFFSET_FILTER_ALPHA, IntToFloat(v)))

-----------------------------------------------------------------------------
(* Records *)

\* SyncResult() : the default-constructed result
EmptyResult ==
    [success |-> FALSE, serverUsed |-> "", error |-> "", offsetMs |-> 0,
     syncUsec |-> 0, roundTripMs |-> 0, stratum |-> 0, syncTime |-> 0]

\* the record addServer pushes
NewServer(hostname, port) ==
    [hostname |-> hostname, port |-> port, lastSuccessTime |-> 0,
     failureCount |-> 0, averageOffset |-> 0, averageRTT |-> 0,
     reachable |-> TRUE, stratum |-> 255]

\* what the transport does in one attempt
SendFail == [kind |-> "sendfail"]
Timeout  == [kind |-> "timeout"]
Reply(tx, stratum, elapsed) ==
    [kind |-> "reply", tx |-> tx, stratum |-> stratum, elapsed |-> elapsed]

\* a datagram as parsePacket reports it: its size, and the transmit seconds,
\* transmit fraction and stratum in its first 48 bytes
Datagram(size, txTm_s, txTm_f, stratum) ==
    [size |-> size, txTm_s |-> txTm_s, txTm_f |-> txTm_f, stratum |-> stratum]

\* a datagram sent in answer to the request-th request of the call that is
\* running; nothing of a datagram read by the code says which request that is
DatagramFor(request, size, txTm_s, txTm_f, stratum) ==
    [request |-> request, size |-> size, txTm_s |-> txTm_s, txTm_f |-> txTm_f,
     stratum |-> stratum]

\* the request is sent and the datagrams of arrivals come in, in this order,
\* before the timeout; elapsed is millis() - startTime when the wait ends well,
\* clockUsec the microseconds of the system clock at that moment
Received(arrivals, elapsed, clockUsec) ==
    [kind |-> "received", arrivals |-> arrivals, elapsed |-> elapsed,
     clockUsec |-> clockUsec]

-----------------------------------------------------------------------------
(* getBestServer *)

\* a score that leaves the failures out
ScoreNoFailures(s) == ToBig(s.stratum * 1000 + s.averageRTT)

\* the uint32_t score of a record
Score(s) == ToBig(s.stratum * 1000 + s.failureCount * 100 + s.averageRTT)

RECURSIVE BestScan(_, _, _, _)
BestScan(svs, i, best, bestScore) ==
    IF i > Len(svs) THEN best
    ELSE IF ~svs[i].reachable THEN BestScan(svs, i + 1, best, bestScore)
    ELSE IF BigLt(Score(svs[i]), bestScore)
         THEN BestScan(svs, i + 1, i, Score(svs[i]))
         ELSE BestScan(svs, i + 1, best, bestScore)

\* getBestServer taking the first record, reachable or not
getBestServerFirst(svs) == IF Len(svs) > 0 THEN 1 ELSE 0

\* index of the best record, 0 for nullptr
getBestServer(svs) == BestScan(svs, 1, 0, UINT32_MAX)

-----------------------------------------------------------------------------
(* parseNTPPacket *)

\* parseNTPPacket without the adjustment for the network delay
parseNTPPacketNoDelay(txTm_s, rtt) ==
    IF BigLt(txTm_s, ToBig(1000000000)) THEN 0
    ELSE LET unixTime32 == U32Sub(txTm_s, NTP_TIMESTAMP_DELTA)
         IN  IF BigLe(TwoTo31, unixTime32) THEN 0
             ELSE IF BigVal(unixTime32) < 946684800 THEN 0
             ELSE BigVal(unixTime32)

\* parseNTPPacket without the lower limit of the epoch
parseNTPPacketNoFloor(txTm_s, rtt) ==
    IF BigLt(txTm_s, ToBig(1000000000)) THEN 0
    ELSE LET unixTime32 == U32Sub(txTm_s, NTP_TIMESTAMP_DELTA)
         IN  IF BigLe(TwoTo31, unixTime32) THEN 0
             ELSE BigVal(unixTime32) + (rtt \div 2000)

\* 0 for an invalid packet, else the Unix time adjusted by half the round trip
parseNTPPacket(txTm_s, rtt) ==
    IF BigLt(txTm_s, ToBig(1000000000)) THEN 0
    ELSE LET unixTime32 == U32Sub(txTm_s, NTP_TIMESTAMP_DELTA)
         IN  \* ntpTime > 2147483647 with a 64-bit time_t; with a 32-bit time_t
             \* the conversion gives a negative value, below 946684800
             IF BigLe(TwoTo31, unixTime32) THEN 0
             ELSE IF BigVal(unixTime32) < 946684800 THEN 0
             ELSE BigVal(unixTime32) + (rtt \div 2000)

-----------------------------------------------------------------------------
(* updateServerStats *)

\* (int32_t)((1.0f - OFFSET_FILTER_ALPHA) * averageOffset + OFFSET_FILTER_ALPHA * offset)
EmaOffset(avg, v) == FloatToInt(Ema(avg, v))

\* (uint16_t)((1.0f - OFFSET_FILTER_ALPHA) * averageRTT + OFFSET_FILTER_ALPHA * rtt)
EmaRTT(avg, v) == FloatToInt(Ema(avg, v)) % 65536

updateServerStats(server, success, offset, rtt, now) ==
    IF success
    THEN LET first == server.averageOffset = 0
         IN  [server EXCEPT
                 !.lastSuccessTime = now,
                 !.failureCount = 0,
                 !.averageOffset = IF first THEN offset ELSE EmaOffset(@, offset),
                 !.averageRTT = IF first THEN rtt ELSE EmaRTT(@, rtt)]
    ELSE [server EXCEPT
             !.failureCount = @ + 1,
             !.reachable = IF server.failureCount + 1 >= MAX_RETRY_COUNT THEN FALSE ELSE @]

-----------------------------------------------------------------------------
(* The state a call works on: the fields it may change, and what it has done *)

Cur ==
    [servers |-> servers, sysTime |-> sysTime, lastSyncTime |-> lastSyncTime,
     lastOffset |-> lastOffset, syncCount |-> syncCount,
     syncFailures |-> syncFailures, totalSyncTime |-> totalSyncTime,
     averageSyncTime |-> averageSyncTime, events |-> <<>>,
     timeoutMs |-> DEFAULT_TIMEOUT_MS]

Commit(c) ==
    /\ servers' = c.servers
    /\ sysTime' = c.sysTime
    /\ lastSyncTime' = c.lastSyncTime
    /\ lastOffset' = c.lastOffset
    /\ syncCount' = c.syncCount
    /\ syncFailures' = c.syncFailures
    /\ totalSyncTime' = c.totalSyncTime
    /\ averageSyncTime' = c.averageSyncTime
    /\ events' = c.events

Emit(c, e) == [c EXCEPT !.events = Append(@, e)]

-----------------------------------------------------------------------------
(* applyTimeOffset *)

\* applyTimeOffset without the callback
applyTimeOffsetSilent(c, newTime) ==
    Emit([c EXCEPT !.sysTime = newTime],
         [ev |-> "settimeofday", sec |-> newTime, usec |-> 0])

applyTimeOffset(c, newTime) ==
    LET oldTime == c.sysTime
        set == Emit([c EXCEPT !.sysTime = newTime],
                    [ev |-> "settimeofday", sec |-> newTime, usec |-> 0])
    IN  IF timeChangeCallback
        THEN Emit(set, [ev |-> "timeChangeCallback", oldTime |-> oldTime,
                        newTime |-> newTime])
        ELSE set

-----------------------------------------------------------------------------
(* sendNTPPacket and receiveNTPPacket *)

\* the packet sendNTPPacket writes, the clock reading now
sendNTPPacket(now) ==
    [li_vn_mode |-> 35, stratum |-> 0, poll |-> 0, precision |-> 0,
     rootDelay |-> 0, rootDispersion |-> 0, refId |-> 0,
     refTm_s |-> 0, refTm_f |-> 0,
     origTm_s |-> U32Add(ToBig(now), NTP_TIMESTAMP_DELTA), origTm_f |-> 0,
     rxTm_s |-> 0, rxTm_f |-> 0, txTm_s |-> 0, txTm_f |-> 0]

\* receiveNTPPacket taking datagrams of the packet's size only
receiveNTPPacketExact(o) ==
    IF o.kind # "received" THEN o
    ELSE LET fit == {k \in 1..Len(o.arrivals) : o.arrivals[k].size = NTP_PACKET_SIZE}
         IN  IF fit = {} THEN Timeout
             ELSE LET first == CHOOSE k \in fit : \A j \in fit : k <= j
                  IN  [kind |-> "reply", tx |-> o.arrivals[first].txTm_s,
                       stratum |-> o.arrivals[first].stratum,
                       elapsed |-> o.elapsed]

\* the wait for a reply: the first datagram of at least sizeof(NTPPacket)
\* bytes ends it, its first 48 bytes read into the packet; smaller ones are
\* passed over, and the wait times out when none is big enough
receiveNTPPacket(o) ==
    IF o.kind # "received" THEN o
    ELSE LET fit == {k \in 1..Len(o.arrivals) : o.arrivals[k].size >= NTP_PACKET_SIZE}
         IN  IF fit = {} THEN Timeout
             ELSE LET first == CHOOSE k \in fit : \A j \in fit : k <= j
                  IN  [kind |-> "reply", tx |-> o.arrivals[first].txTm_s,
                       stratum |-> o.arrivals[first].stratum,
                       elapsed |-> o.elapsed]

-----------------------------------------------------------------------------
(* syncTimeFromServer *)

RECURSIVE FindServer(_, _, _)
FindServer(svs, hostname, i) ==
    IF i > Len(svs) THEN 0
    ELSE IF svs[i].hostname = hostname THEN i
    ELSE FindServer(svs, hostname, i + 1)

\* a failed attempt that leaves the error text empty
AttemptFailedNoText(c, result, serverInfo, msg) ==
    LET booked == IF serverInfo = 0 THEN c
                  ELSE [c EXCEPT !.servers[serverInfo] =
                            updateServerStats(@, FALSE, 0, 0, c.sysTime)]
    IN  [c |-> Emit(booked, [ev |-> "returned", result |-> result]),
         result |-> result]

\* the attempt's failure paths: the error text, the failure booked on the
\* record found for the hostname, the result returned
AttemptFailed(c, result, serverInfo, msg) ==
    LET r == [result EXCEPT !.error = msg]
        booked == IF serverInfo = 0 THEN c
                  ELSE [c EXCEPT !.servers[serverInfo] =
                            updateServerStats(@, FALSE, 0, 0, c.sysTime)]
    IN  [c |-> Emit(booked, [ev |-> "returned", result |-> r]), result |-> r]

\* the attempt's success path, from "Calculate offset" on
AttemptSucceeded(c, result, serverInfo, ntpTime, rtt, elapsed, stratum) ==
    LET currentTime == c.sysTime
        offset == WrapMul1000(ntpTime - currentTime)
        applied == applyTimeOffset(c, ntpTime)
        r == [result EXCEPT !.success = TRUE, !.offsetMs = offset,
                            !.roundTripMs = rtt, !.stratum = stratum,
                            !.syncTime = ntpTime]
        counted == [applied EXCEPT
                       !.syncCount = @ + 1,
                       !.lastSyncTime = ntpTime,
                       !.lastOffset = offset,
                       !.totalSyncTime = @ + elapsed,
                       !.averageSyncTime =
                           <<applied.totalSyncTime + elapsed, applied.syncCount + 1>>]
        booked == IF serverInfo = 0 THEN counted
                  ELSE [counted EXCEPT !.servers[serverInfo] =
                            [updateServerStats(@, TRUE, offset, rtt, counted.sysTime)
                                EXCEPT !.stratum = stratum]]
        c1 == IF syncCallback
              THEN Emit(booked, [ev |-> "syncCallback", result |-> r])
              ELSE booked
        c2 == IF rtcCallback
              THEN Emit(c1, [ev |-> "rtcCallback", time |-> ntpTime])
              ELSE c1
    IN  [c |-> Emit(c2, [ev |-> "returned", result |-> r]), result |-> r]

\* syncTimeFromServer applying the time of a packet before looking at it
syncTimeFromServerEager(c, hostname, candidate, o) ==
    LET result == [EmptyResult EXCEPT !.serverUsed = hostname]
        serverInfo == FindServer(c.servers, hostname, 1)
        c0 == Emit(c, [ev |-> "request", hostname |-> hostname,
                       candidate |-> candidate, port |-> DEFAULT_NTP_PORT,
                       timeoutMs |-> c.timeoutMs,
                       packet |-> sendNTPPacket(c.sysTime), outcome |-> o])
        got == receiveNTPPacket(o)
        rtt == IF got.kind = "reply" THEN got.elapsed % 65536 ELSE 0
        ntpTime == IF got.kind = "reply" THEN parseNTPPacket(got.tx, rtt) ELSE 0
    IN  IF got.kind = "sendfail"
        THEN AttemptFailed(c0, result, serverInfo, "Failed to send NTP packet")
        ELSE IF got.kind = "timeout"
        THEN AttemptFailed(c0, result, serverInfo, "Timeout waiting for NTP response")
        ELSE IF ntpTime = 0
        THEN AttemptFailed(applyTimeOffset(c0, 0), result, serverInfo,
                           "Invalid NTP packet received")
        ELSE AttemptSucceeded(c0, result, serverInfo, ntpTime, rtt, got.elapsed,
                              got.stratum)

\* one call of syncTimeFromServer(hostname), the transport doing o; candidate
\* is the index of the record syncTime makes the call for, 0 in a direct call
syncTimeFromServer(c, hostname, candidate, o) ==
    LET result == [EmptyResult EXCEPT !.serverUsed = hostname]
        serverInfo == FindServer(c.servers, hostname, 1)
        c0 == Emit(c, [ev |-> "request", hostname |-> hostname,
                       candidate |-> candidate, port |-> DEFAULT_NTP_PORT,
                       timeoutMs |-> c.timeoutMs,
                       packet |-> sendNTPPacket(c.sysTime), outcome |-> o])
        got == receiveNTPPacket(o)
        rtt == IF got.kind = "reply" THEN got.elapsed % 65536 ELSE 0
        ntpTime == IF got.kind = "reply" THEN parseNTPPacket(got.tx, rtt) ELSE 0
    IN  IF got.kind = "sendfail"
        THEN AttemptFailed(c0, result, serverInfo, "Failed to send NTP packet")
        ELSE IF got.kind = "timeout"
        THEN AttemptFailed(c0, result, serverInfo, "Timeout waiting for NTP response")
        ELSE IF ntpTime = 0
        THEN AttemptFailed(c0, result, serverInfo, "Invalid NTP packet received")
        ELSE AttemptSucceeded(c0, result, serverInfo, ntpTime, rtt, got.elapsed,
                              got.stratum)

-----------------------------------------------------------------------------
(* syncTime *)

\* "Try all servers in order", from record i on; result is the last result
\* assigned.  The set of ways the call can end, one per choice of what the
\* transport does in each attempt.
RECURSIVE SyncLoop(_, _, _, _)

\* "if (result.success) return result;": the call ends with the attempt a
\* when it succeeded and goes on from record i when it failed
ReturnOrGoOn(a, i, Outs) ==
    IF a.result.success THEN {a} ELSE SyncLoop(a.c, a.result, i, Outs)

SyncLoop(c, result, i, Outs) ==
    IF i > Len(c.servers)
    THEN {[c |-> [c EXCEPT !.syncFailures = @ + 1],
           result |-> [result EXCEPT !.error = "Failed to sync with any server"]]}
    ELSE IF ~c.servers[i].reachable THEN SyncLoop(c, result, i + 1, Outs)
    ELSE UNION { ReturnOrGoOn(syncTimeFromServer(c, c.servers[i].hostname, i, o),
                              i + 1, Outs) : o \in Outs }

\* syncTime going through the servers with half the timeout
syncTimeShorterRetries(c, Outs) ==
    IF ~initialized
    THEN {[c |-> c, result |-> [EmptyResult EXCEPT !.error = "NTP client not initialized"]]}
    ELSE LET bestServer == getBestServer(c.servers)
         IN  IF bestServer = 0 THEN SyncLoop(c, EmptyResult, 1, Outs)
             ELSE UNION { LET a == syncTimeFromServer(c, c.servers[bestServer].hostname,
                                                      bestServer, o)
                          IN  IF a.result.success THEN {a}
                              ELSE SyncLoop([a.c EXCEPT !.timeoutMs = @ \div 2],
                                            a.result, 1, Outs) : o \in Outs }

\* syncTime giving up after the best server
syncTimeBestOnly(c, Outs) ==
    IF ~initialized
    THEN {[c |-> c, result |-> [EmptyResult EXCEPT !.error = "NTP client not initialized"]]}
    ELSE LET bestServer == getBestServer(c.servers)
         IN  IF bestServer = 0 THEN SyncLoop(c, EmptyResult, 1, Outs)
             ELSE { LET a == syncTimeFromServer(c, c.servers[bestServer].hostname,
                                                bestServer, o)
                    IN  IF a.result.success THEN a
                        ELSE [c |-> [a.c EXCEPT !.syncFailures = @ + 1],
                              result |-> [a.result EXCEPT
                                             !.error = "Failed to sync with any server"]]
                    : o \in Outs }

\* syncTime without the attempt on the best server
syncTimeInOrder(c, Outs) ==
    IF ~initialized
    THEN {[c |-> c, result |-> [EmptyResult EXCEPT !.error = "NTP client not initialized"]]}
    ELSE SyncLoop(c, EmptyResult, 1, Outs)

\* syncTime without the check of _initialized
syncTimeUnchecked(c, Outs) ==
    LET bestServer == getBestServer(c.servers)
    IN  IF bestServer = 0 THEN SyncLoop(c, EmptyResult, 1, Outs)
        ELSE UNION { LET a == syncTimeFromServer(c, c.servers[bestServer].hostname,
                                                 bestServer, o)
                     IN  IF a.result.success THEN {a}
                         ELSE SyncLoop(a.c, a.result, 1, Outs) : o \in Outs }

\* the attempt on the best server, record bestServer, and the loop after it
BestThenLoop(c, bestServer, Outs) ==
    UNION { ReturnOrGoOn(syncTimeFromServer(c, c.servers[bestServer].hostname,
                                            bestServer, o), 1, Outs) : o \in Outs }

syncTime(c, Outs) ==
    IF ~initialized
    THEN {[c |-> c, result |-> [EmptyResult EXCEPT !.error = "NTP client not initialized"]]}
    ELSE IF getBestServer(c.servers) = 0 THEN SyncLoop(c, EmptyResult, 1, Outs)
    ELSE BestThenLoop(c, getBestServer(c.servers), Outs)

-----------------------------------------------------------------------------
(* What the transport is let do in an attempt *)

\* 2024-01-01T00:00:00Z as NTP seconds: 1,704,067,200 + 2,208,988,800
Tx2024 == Big(3, 913056000)

\* a reply carrying uptime instead of wall time
Uptime == Reply(Big(0, 999999999), 2, 30)

\* the server answers (stratum 2, after 40 ms) or the request times out
Answers == {Timeout, Reply(Tx2024, 2, 40)}

\* the server always answers
Answered == {Reply(Tx2024, 2, 40)}

\* every way an attempt fails, and an answer
Outcomes == {SendFail, Timeout, Uptime, Reply(Tx2024, 2, 40)}

\* transmit seconds next to the thresholds of parseNTPPacket: 10^9 - 1; 10^9,
\* where the subtraction of the epoch delta wraps; Unix 946684799
Refused == {Big(0, 999999999), Big(1, 0), Big(3, 155673599)}

\* Unix 946684800, the least transmit seconds accepted, and 2^32 - 1, the greatest
TxFloor == Big(3, 155673600)
TxCeiling == Big(4, 294967295)

\* what an exchange with the server can bring: no reply; a refused reply; 2024
\* after 40 ms; ten seconds later after a round trip of 2 s; the least time after
\* 3 s; the greatest after 66 s (more than a uint16_t of milliseconds)
Exchanges ==
    {SendFail, Timeout}
    \cup {Reply(tx, 3, 40) : tx \in Refused}
    \cup {Reply(Tx2024, 2, 40), Reply(Big(3, 913056010), 2, 2000),
          Reply(TxFloor, 2, 3000), Reply(TxCeiling, 2, 66000)}

-----------------------------------------------------------------------------
(* The calendar: isLeapYear, daysInMonth, and the C library's mktime and    *)
(* gmtime.  The library never sets TZ, so mktime reads a struct tm as UTC.  *)

\* isLeapYear taking every fourth year
isLeapYearJulian(year) == year % 4 = 0

isLeapYear(year) ==
    (year % 4 = 0 /\ year % 100 # 0) \/ (year % 400 = 0)

\* daysInMonth without the leap day
daysInMonthCommon(month, year) ==
    <<31, 28, 31, 30, 31, 30, 31, 31, 30, 31, 30, 31>>[month]

daysInMonth(month, year) ==
    IF month = 2 /\ isLeapYear(year) THEN 29
    ELSE <<31, 28, 31, 30, 31, 30, 31, 31, 30, 31, 30, 31>>[month]

\* days from 1970-01-01 to the day mday of month mon (1..12) of year; mday may
\* lie outside the month, as mktime normalizes it
DaysFromCivil(year, mon, mday) ==
    LET y == IF mon <= 2 THEN year - 1 ELSE year
        era == y \div 400
        yoe == y - era * 400
        mp == (mon + 9) % 12
        doy == (153 * mp + 2) \div 5 + mday - 1
        doe == yoe * 365 + yoe \div 4 - yoe \div 100 + doy
    IN  era * 146097 + doe - 719468

\* mktime of {tm_year, tm_mon, tm_mday, tm_hour}, minutes and seconds 0
mktime(year, mon, mday, hour) ==
    DaysFromCivil(year, mon, mday) * 86400 + hour * 3600

\* gmtime: the broken-down UTC time of t, as far as the program reads it
gmtime(t) ==
    LET days == t \div 86400
        z == days + 719468
        era == z \div 146097
        doe == z - era * 146097
        yoe == (doe - doe \div 1460 + doe \div 36524 - doe \div 146096) \div 365
        doy == doe - (365 * yoe + yoe \div 4 - yoe \div 100)
        mp == (5 * doy + 2) \div 153
        mon == IF mp < 10 THEN mp + 3 ELSE mp - 9
    IN  [tm_year |-> (IF mon <= 2 THEN yoe + era * 400 + 1 ELSE yoe + era * 400) - 1900,
         tm_mon |-> mon - 1,
         tm_mday |-> doy - (153 * mp + 2) \div 5 + 1,
         tm_hour |-> (t % 86400) \div 3600,
         tm_wday |-> (days + 4) % 7]

-----------------------------------------------------------------------------
(* Time zones and daylight saving time *)

\* "Handle last week of month": 7 is taken off while the day is past the month
RECURSIVE LastInMonth(_, _)
LastInMonth(targetDay, daysInMon) ==
    IF targetDay > daysInMon THEN LastInMonth(targetDay - 7, daysInMon)
    ELSE targetDay

\* getDSTTransition without the handling of the last week
getDSTTransitionNoLast(year, month, week, dayOfWeek, hour) ==
    LET firstDay == mktime(year, month, 1, hour)
        firstDayOfWeek == gmtime(firstDay).tm_wday
        daysUntilTarget == (dayOfWeek - firstDayOfWeek + 7) % 7
    IN  mktime(year, month, 1 + daysUntilTarget + (week - 1) * 7, hour)

getDSTTransition(year, month, week, dayOfWeek, hour) ==
    LET firstDay == mktime(year, month, 1, hour)
        firstDayOfWeek == gmtime(firstDay).tm_wday
        daysUntilTarget == (dayOfWeek - firstDayOfWeek + 7) % 7
        targetDay == 1 + daysUntilTarget + (week - 1) * 7
    IN  mktime(year, month,
               IF week = 5 THEN LastInMonth(targetDay, daysInMonth(month, year))
               ELSE targetDay,
               hour)

\* a TimeZoneConfig; dstStart and dstEnd are <<week, month, day of week, hour>>
TimeZoneConfig(offsetMinutes, name, useDST, dstStart, dstEnd, dstOffsetMinutes) ==
    [offsetMinutes |-> offsetMinutes, name |-> name, useDST |-> useDST,
     dstStartWeek |-> dstStart[1], dstStartMonth |-> dstStart[2],
     dstStartDayOfWeek |-> dstStart[3], dstStartHour |-> dstStart[4],
     dstEndWeek |-> dstEnd[1], dstEndMonth |-> dstEnd[2],
     dstEndDayOfWeek |-> dstEnd[3], dstEndHour |-> dstEnd[4],
     dstOffsetMinutes |-> dstOffsetMinutes]

getTimeZoneEST == TimeZoneConfig(-300, "EST", TRUE, <<2, 3, 0, 2>>, <<1, 11, 0, 2>>, 60)
getTimeZoneCET == TimeZoneConfig(60, "CET", TRUE, <<5, 3, 0, 2>>, <<5, 10, 0, 3>>, 60)
getTimeZoneUTC == TimeZoneConfig(0, "UTC", FALSE, <<0, 0, 0, 0>>, <<0, 0, 0, 0>>, 0)

\* isDST(timestamp) taking the end of DST for a part of it
isDSTClosed(tz, timestamp) ==
    IF ~tz.useDST THEN FALSE
    ELSE LET year == gmtime(timestamp).tm_year + 1900
             dstStart == getDSTTransition(year, tz.dstStartMonth, tz.dstStartWeek,
                                          tz.dstStartDayOfWeek, tz.dstStartHour)
             dstEnd == getDSTTransition(year, tz.dstEndMonth, tz.dstEndWeek,
                                        tz.dstEndDayOfWeek, tz.dstEndHour)
         IN  IF dstStart < dstEnd
             THEN timestamp >= dstStart /\ timestamp <= dstEnd
             ELSE timestamp >= dstStart \/ timestamp <= dstEnd

\* isDST(timestamp) under the rule tz
isDST(tz, timestamp) ==
    IF ~tz.useDST THEN FALSE
    ELSE LET year == gmtime(timestamp).tm_year + 1900
             dstStart == getDSTTransition(year, tz.dstStartMonth, tz.dstStartWeek,
                                          tz.dstStartDayOfWeek, tz.dstStartHour)
             dstEnd == getDSTTransition(year, tz.dstEndMonth, tz.dstEndWeek,
                                        tz.dstEndDayOfWeek, tz.dstEndHour)
         IN  IF dstStart < dstEnd
             THEN timestamp >= dstStart /\ timestamp < dstEnd
             ELSE timestamp >= dstStart \/ timestamp < dstEnd

\* an int16_t after an addition
Int16(x) == ((x + 32768) % 65536) - 32768

\* getLocalTime leaving out the DST offset
getLocalTimeStandard(tz, utc) == utc + tz.offsetMinutes * 60

\* getLocalTime, utc being time(nullptr)
getLocalTime(tz, utc) ==
    LET offset == IF isDST(tz, utc)
                  THEN Int16(tz.offsetMinutes + tz.dstOffsetMinutes)
                  ELSE tz.offsetMinutes
    IN  utc + offset * 60

-----------------------------------------------------------------------------
(* The client after construction; the clock has never been set *)

Init ==
    /\ servers = <<>>
    /\ initialized = FALSE
    /\ localPort = 8888
    /\ autoSyncEnabled = FALSE
    /\ autoSyncInterval = 3600
    /\ timezone = getTimeZoneUTC
    /\ lastSyncTime = 0
    /\ lastOffset = 0
    /\ syncCount = 0
    /\ syncFailures = 0
    /\ totalSyncTime = 0
    /\ averageSyncTime = <<0, 1>>
    /\ syncCallback = FALSE
    /\ timeChangeCallback = FALSE
    /\ rtcCallback = FALSE
    /\ sysTime = 0
    /\ op = [name |-> "NTPClient"]
    /\ ret = FALSE
    /\ events = <<>>

-----------------------------------------------------------------------------
(* The calls *)

\* begin registering a server when there is none
BeginAddingServer(port) ==
    /\ localPort' = port
    /\ initialized' = TRUE
    /\ servers' = IF servers = <<>>
                  THEN <<NewServer("pool.ntp.org", DEFAULT_NTP_PORT)>>
                  ELSE servers
    /\ op' = [name |-> "begin", localPort |-> port]
    /\ ret' = FALSE
    /\ events' = <<[ev |-> "udp.begin", port |-> port]>>
    /\ UNCHANGED <<lastSyncTime, lastOffset, syncCount, syncFailures, totalSyncTime,
                   averageSyncTime, sysTime, autoSyncEnabled, autoSyncInterval,
                   timezone, hooks>>

Begin(port) ==
    /\ localPort' = port
    /\ initialized' = TRUE
    /\ op' = [name |-> "begin", localPort |-> port]
    /\ ret' = FALSE
    /\ events' = <<[ev |-> "udp.begin", port |-> port]>>
    /\ UNCHANGED <<fields, autoSyncEnabled, autoSyncInterval, timezone, hooks>>

End ==
    /\ initialized' = FALSE
    /\ op' = [name |-> "end"]
    /\ ret' = FALSE
    /\ events' = <<[ev |-> "udp.stop"]>>
    /\ UNCHANGED <<fields, localPort, autoSyncEnabled, autoSyncInterval, timezone, hooks>>

\* addServer without the check of the size
addServerUnlimited(svs, hostname, port) ==
    IF \E i \in 1..Len(svs) : svs[i].hostname = hostname /\ svs[i].port = port
    THEN [servers |-> svs, ret |-> TRUE]
    ELSE [servers |-> Append(svs, NewServer(hostname, port)), ret |-> TRUE]

\* addServer without the search for the pair
addServerNoSearch(svs, hostname, port) ==
    IF Len(svs) >= MAX_SERVERS THEN [servers |-> svs, ret |-> FALSE]
    ELSE [servers |-> Append(svs, NewServer(hostname, port)), ret |-> TRUE]

\* the registry and the value returned
addServer(svs, hostname, port) ==
    IF Len(svs) >= MAX_SERVERS THEN [servers |-> svs, ret |-> FALSE]
    ELSE IF \E i \in 1..Len(svs) : svs[i].hostname = hostname /\ svs[i].port = port
    THEN [servers |-> svs, ret |-> TRUE]
    ELSE [servers |-> Append(svs, NewServer(hostname, port)), ret |-> TRUE]

\* one call of addServer
AddServerCall(hostname, port) ==
    /\ servers' = addServer(servers, hostname, port).servers
    /\ ret' = addServer(servers, hostname, port).ret
    /\ op' = [name |-> "addServer", hostname |-> hostname, port |-> port]
    /\ events' = <<>>
    /\ UNCHANGED <<lastSyncTime, lastOffset, syncCount, syncFailures, totalSyncTime,
                   averageSyncTime, sysTime, config, hooks>>

\* addServer while the registry stays within MaxRegistry records
AddServer(hostname, port) ==
    /\ Len(addServer(servers, hostname, port).servers) <= MaxRegistry
    /\ AddServerCall(hostname, port)

\* removeServer stopping at the first record of the hostname
removeServerFirstOnly(svs, hostname) ==
    LET i == CHOOSE k \in 0..Len(svs) :
                 /\ k # 0 => svs[k].hostname = hostname
                 /\ \A j \in 1..Len(svs) :
                       svs[j].hostname = hostname => (k # 0 /\ k <= j)
    IN  IF i = 0 THEN [servers |-> svs, ret |-> FALSE]
        ELSE [servers |-> SubSeq(svs, 1, i - 1) \o SubSeq(svs, i + 1, Len(svs)),
              ret |-> TRUE]

\* std::remove_if and erase: the registry and the value returned
removeServer(svs, hostname) ==
    LET kept == SelectSeq(svs, LAMBDA s : s.hostname # hostname)
    IN  [servers |-> kept, ret |-> Len(kept) # Len(svs)]

RemoveServer(hostname) ==
    /\ servers' = removeServer(servers, hostname).servers
    /\ ret' = removeServer(servers, hostname).ret
    /\ op' = [name |-> "removeServer", hostname |-> hostname]
    /\ events' = <<>>
    /\ UNCHANGED <<lastSyncTime, lastOffset, syncCount, syncFailures, totalSyncTime,
                   averageSyncTime, sysTime, config, hooks>>

ClearServers ==
    /\ servers' = <<>>
    /\ op' = [name |-> "clearServers"]
    /\ ret' = FALSE
    /\ events' = <<>>
    /\ UNCHANGED <<lastSyncTime, lastOffset, syncCount, syncFailures, totalSyncTime,
                   averageSyncTime, sysTime, config, hooks>>

\* the loop over DEFAULT_NTP_SERVERS, from the i-th on
RECURSIVE AddDefaults(_, _)
AddDefaults(svs, i) ==
    IF i > DEFAULT_SERVER_COUNT THEN svs
    ELSE AddDefaults(addServer(svs, DEFAULT_NTP_SERVERS[i], DEFAULT_NTP_PORT).servers,
                     i + 1)

BeginWithDefaults(port) ==
    /\ servers' = IF servers = <<>> THEN AddDefaults(servers, 1) ELSE servers
    /\ localPort' = port
    /\ initialized' = TRUE
    /\ op' = [name |-> "beginWithDefaults", localPort |-> port]
    /\ ret' = FALSE
    /\ events' = <<[ev |-> "udp.begin", port |-> port]>>
    /\ UNCHANGED <<lastSyncTime, lastOffset, syncCount, syncFailures, totalSyncTime,
                   averageSyncTime, sysTime, autoSyncEnabled, autoSyncInterval,
                   timezone, hooks>>

SyncTime(Outs) ==
    /\ syncCount < MaxSyncCount
    /\ syncFailures < MaxSyncFailures
    /\ \E run \in syncTime(Cur, Outs) :
          /\ Commit(run.c)
          /\ ret' = run.result
    /\ op' = [name |-> "syncTime"]
    /\ UNCHANGED <<config, hooks>>

\* syncTime(timeoutMs)
SyncTimeWithin(timeoutMs, Outs) ==
    /\ syncCount < MaxSyncCount
    /\ syncFailures < MaxSyncFailures
    /\ \E run \in syncTime([Cur EXCEPT !.timeoutMs = timeoutMs], Outs) :
          /\ Commit(run.c)
          /\ ret' = run.result
    /\ op' = [name |-> "syncTime", timeoutMs |-> timeoutMs]
    /\ UNCHANGED <<config, hooks>>

SyncTimeFromServer(hostname, Outs) ==
    /\ syncCount < MaxSyncCount
    /\ \E o \in Outs :
          \E run \in {syncTimeFromServer(Cur, hostname, 0, o)} :
              /\ \A i \in 1..Len(servers) :
                    run.c.servers[i].failureCount <= MaxFailureCount
              /\ Commit(run.c)
              /\ ret' = run.result
    /\ op' = [name |-> "syncTimeFromServer", hostname |-> hostname]
    /\ UNCHANGED <<config, hooks>>

\* resetStatistics leaving reachable as it is
resetStatisticsKeepReachable(svs) ==
    [i \in 1..Len(svs) |->
        [svs[i] EXCEPT !.failureCount = 0, !.averageOffset = 0, !.averageRTT = 0]]

resetStatistics(svs) ==
    [i \in 1..Len(svs) |->
        [svs[i] EXCEPT !.failureCount = 0, !.averageOffset = 0,
                       !.averageRTT = 0, !.reachable = TRUE]]

ResetStatistics ==
    /\ syncCount' = 0
    /\ syncFailures' = 0
    /\ averageSyncTime' = <<0, 1>>
    /\ totalSyncTime' = 0
    /\ servers' = resetStatistics(servers)
    /\ op' = [name |-> "resetStatistics"]
    /\ ret' = FALSE
    /\ events' = <<>>
    /\ UNCHANGED <<lastSyncTime, lastOffset, sysTime, config, hooks>>

OnSync ==
    /\ syncCallback' = TRUE
    /\ op' = [name |-> "onSync"]
    /\ ret' = FALSE
    /\ events' = <<>>
    /\ UNCHANGED <<fields, config, timeChangeCallback, rtcCallback>>

OnTimeChange ==
    /\ timeChangeCallback' = TRUE
    /\ op' = [name |-> "onTimeChange"]
    /\ ret' = FALSE
    /\ events' = <<>>
    /\ UNCHANGED <<fields, config, syncCallback, rtcCallback>>

\* settimeofday, then the callback with time(nullptr) read after the clock was
\* set as its "old" time
SetEpochTime(epoch) ==
    /\ sysTime' = epoch
    /\ op' = [name |-> "setEpochTime", epoch |-> epoch]
    /\ ret' = FALSE
    /\ events' = IF timeChangeCallback
                 THEN <<[ev |-> "settimeofday", sec |-> epoch, usec |-> 0],
                        [ev |-> "timeChangeCallback", oldTime |-> epoch,
                         newTime |-> epoch]>>
                 ELSE <<[ev |-> "settimeofday", sec |-> epoch, usec |-> 0]>>
    /\ UNCHANGED <<servers, lastSyncTime, lastOffset, syncCount, syncFailures,
                   totalSyncTime, averageSyncTime, config, hooks>>

\* adjustTime: setEpochTime to the clock's time plus offsetSeconds
AdjustTime(offsetSeconds) ==
    /\ sysTime + offsetSeconds >= 0
    /\ sysTime + offsetSeconds - 1704067200 \in -MaxAdjusted..MaxAdjusted
    /\ sysTime' = sysTime + offsetSeconds
    /\ op' = [name |-> "adjustTime", offsetSeconds |-> offsetSeconds]
    /\ ret' = FALSE
    /\ events' = IF timeChangeCallback
                 THEN <<[ev |-> "settimeofday", sec |-> sysTime + offsetSeconds,
                         usec |-> 0],
                        [ev |-> "timeChangeCallback",
                         oldTime |-> sysTime + offsetSeconds,
                         newTime |-> sysTime + offsetSeconds]>>
                 ELSE <<[ev |-> "settimeofday", sec |-> sysTime + offsetSeconds,
                         usec |-> 0]>>
    /\ UNCHANGED <<servers, lastSyncTime, lastOffset, syncCount, syncFailures,
                   totalSyncTime, averageSyncTime, config, hooks>>

SetRTCCallback ==
    /\ rtcCallback' = TRUE
    /\ op' = [name |-> "setRTCCallback"]
    /\ ret' = FALSE
    /\ events' = <<>>
    /\ UNCHANGED <<fields, config, syncCallback, timeChangeCallback>>

\* the system clock reaches the moment to
ClockAdvances(to) ==
    /\ to > sysTime
    /\ sysTime' = to
    /\ op' = [name |-> "clock"]
    /\ ret' = FALSE
    /\ events' = <<>>
    /\ UNCHANGED <<servers, lastSyncTime, lastOffset, syncCount, syncFailures,
                   totalSyncTime, averageSyncTime, config, hooks>>

\* setAutoSync storing the interval as it is given
setAutoSyncAsGiven(enable, intervalSeconds) ==
    [autoSyncEnabled |-> enable, autoSyncInterval |-> intervalSeconds]

\* the fields setAutoSync assigns; max(intervalSeconds, MIN_SYNC_INTERVAL)
setAutoSync(enable, intervalSeconds) ==
    [autoSyncEnabled |-> enable,
     autoSyncInterval |-> IF intervalSeconds < MIN_SYNC_INTERVAL
                          THEN MIN_SYNC_INTERVAL ELSE intervalSeconds]

SetAutoSync(enable, intervalSeconds) ==
    /\ autoSyncEnabled' = setAutoSync(enable, intervalSeconds).autoSyncEnabled
    /\ autoSyncInterval' = setAutoSync(enable, intervalSeconds).autoSyncInterval
    /\ op' = [name |-> "setAutoSync", enable |-> enable,
              intervalSeconds |-> intervalSeconds]
    /\ ret' = FALSE
    /\ events' = <<>>
    /\ UNCHANGED <<fields, initialized, localPort, timezone, hooks>>

\* the test of process without the interval
autoSyncDueOnce(now) == lastSyncTime = 0

\* "Check if it's time to sync", now being time(nullptr).  time_t is 8 bytes
\* (NTPClient.h:61), so the difference is signed and _autoSyncInterval is
\* converted to it: a clock behind _lastSyncTime is not due.
autoSyncDue(now) ==
    lastSyncTime = 0 \/ (now - lastSyncTime) >= autoSyncInterval

\* process(): nothing unless initialized, enabled and due; else one syncTime
\* whose result is dropped
Process(Outs) ==
    /\ IF initialized /\ autoSyncEnabled /\ autoSyncDue(sysTime)
       THEN /\ syncCount < MaxSyncCount
            /\ syncFailures < MaxSyncFailures
            /\ \E run \in syncTime(Cur, Outs) : Commit(run.c)
       ELSE /\ events' = <<>>
            /\ UNCHANGED fields
    /\ op' = [name |-> "process"]
    /\ ret' = FALSE
    /\ UNCHANGED <<config, hooks>>

SetTimeZone(tz) ==
    /\ timezone' = tz
    /\ op' = [name |-> "setTimeZone", config |-> tz]
    /\ ret' = FALSE
    /\ events' = <<>>
    /\ UNCHANGED <<fields, initialized, localPort, autoSyncEnabled,
                   autoSyncInterval, hooks>>

\* isDST(timestamp)
IsDST(timestamp) ==
    /\ op' = [name |-> "isDST", timestamp |-> timestamp]
    /\ ret' = isDST(timezone, timestamp)
    /\ events' = <<>>
    /\ UNCHANGED <<fields, config, hooks>>

GetLocalTime ==
    /\ op' = [name |-> "getLocalTime"]
    /\ ret' = getLocalTime(timezone, sysTime)
    /\ events' = <<>>
    /\ UNCHANGED <<fields, config, hooks>>

\* the static isLeapYear, on the year drawn
IsLeapYear ==
    /\ op.name = "args"
    /\ op' = [name |-> "isLeapYear", year |-> op.year]
    /\ ret' = isLeapYear(op.year)
    /\ events' = <<>>
    /\ UNCHANGED <<fields, config, hooks>>

\* the static daysInMonth, on the month and year drawn
DaysInMonth ==
    /\ op.name = "args"
    /\ op' = [name |-> "daysInMonth", month |-> op.month, year |-> op.year]
    /\ ret' = daysInMonth(op.month, op.year)
    /\ events' = <<>>
    /\ UNCHANGED <<fields, config, hooks>>

\* getDSTTransition on the arguments drawn; years are those whose instants
\* are below 2^31 seconds
GetDSTTransition ==
    /\ op.name = "args"
    /\ op.year \in 1970..2037
    /\ op' = [op EXCEPT !.name = "getDSTTransition"]
    /\ ret' = getDSTTransition(op.year, op.month, op.week, op.dayOfWeek, op.hour)
    /\ events' = <<>>
    /\ UNCHANGED <<fields, config, hooks>>

\* Registry, failover and reachability: servers that answer or time out
Next ==
    \/ Begin(8888)
    \/ \E e \in Endpoints : AddServer(e[1], e[2])
    \/ SyncTime(Answers)
    \/ SyncTimeFromServer("a", Answers)
    \/ ResetStatistics

Spec == Init /\ [][Next]_vars

\* Failover of syncTime under every kind of failure
NextFailover ==
    \/ Begin(8888)
    \/ End
    \/ \E e \in Endpoints : AddServer(e[1], e[2])
    \/ SyncTime(Outcomes)
    \/ ResetStatistics

SpecFailover == Init /\ [][NextFailover]_vars

\* One registered server, the callbacks, and the replies of an exchange
NextExchange ==
    \/ Begin(8888)
    \/ AddServer("a", 123)
    \/ OnSync
    \/ OnTimeChange
    \/ SyncTime(Answers)
    \/ SyncTimeFromServer("a", Exchanges)

SpecExchange == Init /\ [][NextExchange]_vars

\* 2024-01-01T00:00:00Z as Unix seconds
Unix2024 == BigVal(U32Sub(Tx2024, NTP_TIMESTAMP_DELTA))

\* the samples a server's averages are fed: 2024 after 41 ms, ten seconds later
\* after a round trip of 2 s, or no reply
Samples == {Timeout, Reply(Tx2024, 2, 41), Reply(Big(3, 913056010), 2, 2000)}

\* One registered server sampled again and again, the clock set by hand or not
NextAverage ==
    \/ AddServer("a", 123)
    \/ SetEpochTime(Unix2024)
    \/ SyncTimeFromServer("a", Samples)

SpecAverage == Init /\ [][NextAverage]_vars

\* the (hostname, port) pairs a full registry is made of, in the order they are
\* first registered: hosts with several ports, a default host among them
Pool ==
    <<<<"a", 123>>, <<"a", 124>>, <<"b", 123>>, <<"pool.ntp.org", 123>>,
      <<"pool.ntp.org", 124>>, <<"b", 124>>, <<"a", 125>>, <<"b", 125>>,
      <<"a", 126>>, <<"b", 126>>, <<"a", 127>>, <<"b", 127>>>>

Registered(svs, e) ==
    \E i \in 1..Len(svs) : svs[i].hostname = e[1] /\ svs[i].port = e[2]

\* the pairs addServer is called with: the first pair of Pool that is not
\* registered, and the pairs of the first and the last record
Candidates(svs) ==
    {Pool[k] : k \in {k \in 1..Len(Pool) :
                         /\ ~Registered(svs, Pool[k])
                         /\ \A j \in 1..(k - 1) : Registered(svs, Pool[j])}}
    \cup {<<svs[i].hostname, svs[i].port>> : i \in {1, Len(svs)} \cap 1..Len(svs)}

\* The registry filled to its capacity, emptied and filled again
NextRegistry ==
    \/ Begin(8888)
    \/ BeginWithDefaults(8888)
    \/ \E e \in Candidates(servers) : AddServerCall(e[1], e[2])
    \/ \E h \in {"a", "b", "pool.ntp.org", "c"} : RemoveServer(h)
    \/ ClearServers
    \/ SyncTime(Answered)

SpecRegistry == Init /\ [][NextRegistry]_vars

\* the intervals setAutoSync is given: below, at and above MIN_SYNC_INTERVAL
Intervals == {59, 60, 3600}

\* the moments the clock is seen at: a minute less a second, a minute, and an
\* hour after 2024-01-01T00:00:00Z
Moments == {Unix2024 + 59, Unix2024 + 60, Unix2024 + 3600}

\* Polling: the client configured, the clock running or set back by hand, and
\* process() called at any time
NextAutoSync ==
    \/ Begin(8888)
    \/ AddServer("a", 123)
    \/ OnSync
    \/ \E enable \in BOOLEAN, n \in Intervals : SetAutoSync(enable, n)
    \/ \E to \in Moments : ClockAdvances(to)
    \/ SetEpochTime(Unix2024 - 3600)
    \/ Process(Answers)

SpecAutoSync == Init /\ [][NextAutoSync]_vars

\* the years, with century years, leap and common years, and the hours drawn
Years == {1900, 1970, 2000, 2020, 2021, 2024, 2037, 2100}
Hours == {0, 2, 23}

\* the arguments the calendar functions are called with
CalendarArgs ==
    {[name |-> "args", year |-> y, month |-> m, week |-> w, dayOfWeek |-> d,
      hour |-> h] : y \in Years, m \in 1..12, w \in 1..5, d \in 0..6, h \in Hours}

\* a client as constructed, and arguments drawn for one call
InitCalendar ==
    /\ servers = <<>>
    /\ initialized = FALSE
    /\ localPort = 8888
    /\ autoSyncEnabled = FALSE
    /\ autoSyncInterval = 3600
    /\ timezone = getTimeZoneUTC
    /\ lastSyncTime = 0
    /\ lastOffset = 0
    /\ syncCount = 0
    /\ syncFailures = 0
    /\ totalSyncTime = 0
    /\ averageSyncTime = <<0, 1>>
    /\ syncCallback = FALSE
    /\ timeChangeCallback = FALSE
    /\ rtcCallback = FALSE
    /\ sysTime = 0
    /\ op \in CalendarArgs
    /\ ret = FALSE
    /\ events = <<>>

\* The calendar functions, each applied once to the arguments drawn
NextCalendar ==
    \/ IsLeapYear
    \/ DaysInMonth
    \/ GetDSTTransition

SpecCalendar == InitCalendar /\ [][NextCalendar]_vars

\* a rule of the southern hemisphere: DST from the first Sunday of October,
\* 02:00, to the first Sunday of April, 03:00
Southern == TimeZoneConfig(600, "AEST", TRUE, <<1, 10, 0, 2>>, <<1, 4, 0, 3>>, 60)

\* the rule of CET with DST switched off
WinterOnly == [getTimeZoneCET EXCEPT !.useDST = FALSE]

Zones == {getTimeZoneUTC, getTimeZoneEST, getTimeZoneCET, Southern, WinterOnly}

\* the instants asked about: the second before each transition of 2024 and
\* the transition itself, a winter noon and a summer noon
Instants ==
    UNION {{getDSTTransition(2024, z.dstStartMonth, z.dstStartWeek,
                             z.dstStartDayOfWeek, z.dstStartHour) + d,
            getDSTTransition(2024, z.dstEndMonth, z.dstEndWeek,
                             z.dstEndDayOfWeek, z.dstEndHour) + d}
           : z \in {getTimeZoneEST, getTimeZoneCET, Southern}, d \in {-1, 0}}
    \cup {mktime(2024, 1, 15, 12), mktime(2024, 7, 15, 12), mktime(2023, 12, 31, 23)}

\* Local time: a rule chosen, the clock set, and the queries
NextTimeZone ==
    \/ \E tz \in Zones : SetTimeZone(tz)
    \/ \E t \in Instants : SetEpochTime(t)
    \/ \E t \in Instants : IsDST(t)
    \/ GetLocalTime

SpecTimeZone == Init /\ [][NextTimeZone]_vars

\* The datagrams of an exchange with one registered server

\* transmit fractions: none, a tenth, a half and six tenths of a second (each
\* rounded up to a whole fraction), and the greatest
NoFraction == Big(0, 0)
TenthFraction == Big(0, 429496730)
HalfFraction == Big(2, 147483648)
SixTenthsFraction == Big(2, 576980378)
MaxFraction == Big(4, 294967295)
Fractions == {NoFraction, TenthFraction, HalfFraction, SixTenthsFraction, MaxFraction}

\* the microseconds of the system clock when a reply is handled
ClockMicros == {100000, 600000}

\* a datagram one byte short, and the sizes of a datagram with an extension
\* byte and of one carrying a message digest
ShortSize == 47
LongSizes == {49, 68}

\* what the wait for the reply can see: a reply of 48 bytes with each of the
\* fractions; a single datagram that is shorter or longer; nothing; a short
\* datagram and then a reply
Receptions ==
    {Received(<<Datagram(NTP_PACKET_SIZE, Tx2024, f, 2)>>, 40, u) :
        f \in Fractions, u \in ClockMicros}
    \cup {Received(<<Datagram(n, Tx2024, HalfFraction, 2)>>, 40, 100000) :
              n \in {ShortSize} \cup LongSizes}
    \cup {Received(<<>>, 0, 100000),
          Received(<<Datagram(ShortSize, Tx2024, NoFraction, 2),
                     Datagram(NTP_PACKET_SIZE, Tx2024, HalfFraction, 3)>>, 60, 100000)}

\* the clock at 2024-01-01T00:00:00Z, a second later, and at the Unix second
\* whose NTP seconds are 2^32
ClockSettings == {Unix2024, Unix2024 + 1, 2085978496}

\* the default local port and another one
LocalPorts == {8888, 2390}

NextDatagram ==
    \/ \E port \in LocalPorts : Begin(port)
    \/ AddServer("a", 123)
    \/ \E t \in ClockSettings : SetEpochTime(t)
    \/ SyncTimeFromServer("a", Receptions)

SpecDatagram == Init /\ [][NextDatagram]_vars

\* The clock set by hand and by a synchronization, with the time-change callback

\* the offsets given to adjustTime: an hour back, an hour on
Adjustments == {-3600, 3600}

NextClock ==
    \/ AddServer("a", 123)
    \/ OnTimeChange
    \/ SetEpochTime(Unix2024 + 1)
    \/ \E d \in Adjustments : AdjustTime(d)
    \/ SyncTimeFromServer("a", Answers)

SpecClock == Init /\ [][NextClock]_vars

\* Replies that come late

\* an attempt sees nothing before its timeout, or the reply to the first
\* request of the call
LateReplies ==
    {Timeout,
     Received(<<DatagramFor(1, NTP_PACKET_SIZE, Tx2024, NoFraction, 2)>>, 40, 0)}

\* two servers
Hosts == {"a", "b"}

NextLateReply ==
    \/ Begin(8888)
    \/ \E h \in Hosts : AddServer(h, DEFAULT_NTP_PORT)
    \/ OnTimeChange
    \/ SyncTime(LateReplies)
    \/ ResetStatistics

SpecLateReply == Init /\ [][NextLateReply]_vars

\* The order of the attempts: two servers, calls with a timeout, polling,
\* and the ways a record comes back

\* the timeouts given to syncTime
Timeouts == {1000, DEFAULT_TIMEOUT_MS}

\* no server answers
Unanswered == {Timeout}

NextOrder ==
    \/ Begin(8888)
    \/ \E h \in Hosts : AddServer(h, DEFAULT_NTP_PORT)
    \/ \E h \in Hosts : RemoveServer(h)
    \/ SetAutoSync(TRUE, MIN_SYNC_INTERVAL)
    \/ \E t \in Timeouts : SyncTimeWithin(t, Answers)
    \/ \E h \in Hosts : SyncTimeFromServer(h, Unanswered)
    \/ Process(Answers)
    \/ ResetStatistics

SpecOrder == Init /\ [][NextOrder]_vars

\* The three callbacks and every way an attempt ends
NextCallbacks ==
    \/ Begin(8888)
    \/ AddServer("a", 123)
    \/ OnSync
    \/ OnTimeChange
    \/ SetRTCCallback
    \/ SyncTimeFromServer("a", Outcomes)
    \/ SyncTime(Answers)

SpecCallbacks == Init /\ [][NextCallbacks]_vars

-----------------------------------------------------------------------------
(* What the last call did, read off its events *)

\* the requests among the events ev, in order
RequestsOf(ev) == SelectSeq(ev, LAMBDA e : e.ev = "request")

\* how many requests among ev were made for record i of the registry
AttemptsFor(ev, i) ==
    Cardinality({k \in 1..Len(ev) : ev[k].ev = "request" /\ ev[k].candidate = i})

\* how many requests among ev are booked on record i of the registry svs: those
\* whose hostname has record i as its first record
AttemptsBookedOn(ev, svs, i) ==
    Cardinality({k \in 1..Len(ev) :
                    ev[k].ev = "request" /\ FindServer(svs, ev[k].hostname, 1) = i})

\* how many events of the kind there are among ev, and where the first one is
CountOf(ev, kind) == Cardinality({k \in 1..Len(ev) : ev[k].ev = kind})
FirstOf(ev, kind) == CHOOSE k \in 1..Len(ev) : ev[k].ev = kind /\ \A j \in 1..(k - 1) : ev[j].ev # kind

\* the last call was a synchronization
Synchronized == op.name \in {"syncTime", "syncTimeFromServer"}

\* the record a direct syncTimeFromServer(hostname) call works on, 0 if none
Target == FindServer(servers, op.hostname, 1)

-----------------------------------------------------------------------------
(* Reachability and selection *)

\* C3: in a syncTime call in which every attempt fails, each record's failure
\* count grows by the number of failed attempts made for that record, and the
\* record is reachable afterwards exactly when it was reachable and its count
\* is still below 3; a reachable record never has a count above 2.
C3_FailureCountIsAttempts ==
    [][ (op'.name = "syncTime" /\ initialized /\ ~ret'.success) =>
          \A i \in 1..Len(servers) :
              /\ servers'[i].failureCount =
                     servers[i].failureCount + AttemptsFor(events', i)
              /\ servers'[i].reachable <=>
                     (servers[i].reachable /\ servers'[i].failureCount < 3)
              /\ servers'[i].reachable => servers'[i].failureCount <= 2 ]_vars

\* C4: after a successful synchronization with a registered server, that
\* server's record is reachable.
C4_ReachableAfterSuccess ==
    (op.name = "syncTimeFromServer" /\ ret.success /\ Target # 0)
        => servers[Target].reachable

\* the score of a record as the integer it stands for
ScoreOf(s) == s.stratum * 1000 + s.failureCount * 100 + s.averageRTT

\* the records getBestServer chooses among
ReachableRecords == {i \in 1..Len(servers) : servers[i].reachable}

\* C10: getBestServer returns nothing exactly when no record is reachable;
\* otherwise a reachable record of the least score, the first registered of
\* those with that score.
C10_BestServer ==
    LET best == getBestServer(servers)
    IN  /\ (best = 0) <=> (ReachableRecords = {})
        /\ best # 0 =>
              /\ best \in ReachableRecords
              /\ \A j \in ReachableRecords :
                    /\ ScoreOf(servers[best]) <= ScoreOf(servers[j])
                    /\ ScoreOf(servers[j]) = ScoreOf(servers[best]) => best <= j

\* C10 witness: after a synchronization the second record is the best one,
\* ahead of a reachable first record of the same stratum with failures
C10_Witness ==
    /\ op.name = "syncTime"
    /\ Len(servers) = 2
    /\ servers[1].reachable
    /\ servers[1].stratum = servers[2].stratum
    /\ servers[1].failureCount > servers[2].failureCount
    /\ getBestServer(servers) = 2

-----------------------------------------------------------------------------
(* syncTime: failover *)

\* the transmit seconds tx of a reply are refused: below 10^9, or with
\* (tx - 2208988800) mod 2^32 outside 946684800 .. 2147483647
RefusedSeconds(tx) ==
    \/ BigLt(tx, Big(1, 0))
    \/ BigLt(U32Sub(tx, Big(2, 208988800)), Big(0, 946684800))
    \/ BigLt(Big(2, 147483647), U32Sub(tx, Big(2, 208988800)))

\* the transport brought a valid response
ValidResponse(o) == o.kind = "reply" /\ ~RefusedSeconds(o.tx)

\* the hostnames the requests among ev went to
Asked(ev) == {ev[k].hostname : k \in {j \in 1..Len(ev) : ev[j].ev = "request"}}

\* C1: a syncTime call on an initialized client that returns success=false has
\* asked every server that was reachable when it began, every attempt it made
\* has returned a failure, and in none of them did the transport bring a valid
\* response.
C1_FailureOnlyAfterAllFailed ==
    [][ (op'.name = "syncTime" /\ initialized /\ ~ret'.success) =>
          /\ \A i \in 1..Len(servers) :
                servers[i].reachable => servers[i].hostname \in Asked(events')
          /\ CountOf(events', "returned") = CountOf(events', "request")
          /\ \A k \in 1..Len(events') :
                /\ events'[k].ev = "returned" => ~events'[k].result.success
                /\ events'[k].ev = "request" => ~ValidResponse(events'[k].outcome) ]_vars

\* C1 witness: a failed syncTime call that asked two hosts and met a send
\* failure, a timeout or a refused reply on the way
C1_Witness ==
    /\ op.name = "syncTime"
    /\ initialized
    /\ ~ret.success
    /\ Asked(events) = {"a", "b"}
    /\ \E j, k \in 1..Len(events) :
          /\ events[j].ev = "request"
          /\ events[k].ev = "request"
          /\ events[j].outcome.kind # events[k].outcome.kind

\* every request among ev timed out
AllTimedOut(ev) ==
    \A k \in 1..Len(ev) : ev[k].ev = "request" => ev[k].outcome.kind = "timeout"

\* the registry svs is not empty and all of it is reachable
AllReachable(svs) == Len(svs) > 0 /\ \A i \in 1..Len(svs) : svs[i].reachable

\* no two records of svs have the same hostname
DistinctHostnames(svs) ==
    \A i, j \in 1..Len(svs) : svs[i].hostname = svs[j].hostname => i = j

\* C2 as stated: when every registered server times out in a syncTime call, the
\* call fails, _syncFailures grows by one and every failure count by one.
C2_EveryCountPlusOne ==
    [][ (op'.name = "syncTime" /\ initialized /\ AllReachable(servers)
            /\ AllTimedOut(events')) =>
          /\ ~ret'.success
          /\ syncFailures' = syncFailures + 1
          /\ \A i \in 1..Len(servers) :
                servers'[i].failureCount = servers[i].failureCount + 1 ]_vars

\* C2 amended: when every attempt of a syncTime call on an initialized client
\* with all its servers reachable times out, the call fails, _syncFailures
\* grows by one, and each attempt adds one to the failure count of the first
\* record of the hostname asked; with distinct hostnames the best server, asked
\* first and again in the pass over the registry, gains two (one when its first
\* failure made it unreachable) and every other server one.
C2_CountsGrowByAttempts ==
    [][ (op'.name = "syncTime" /\ initialized /\ AllReachable(servers)
            /\ AllTimedOut(events')) =>
          /\ ~ret'.success
          /\ syncFailures' = syncFailures + 1
          /\ \A i \in 1..Len(servers) :
                servers'[i].failureCount =
                    servers[i].failureCount + AttemptsBookedOn(events', servers, i)
          /\ DistinctHostnames(servers) =>
                \A i \in 1..Len(servers) :
                    servers'[i].failureCount - servers[i].failureCount =
                        IF i = getBestServer(servers) /\ servers[i].failureCount < 2
                        THEN 2 ELSE 1 ]_vars

\* C2 witness: two servers of different hosts, all three attempts timed out
C2_Witness ==
    /\ op.name = "syncTime"
    /\ initialized
    /\ ~ret.success
    /\ AllTimedOut(events)
    /\ Len(servers) = 2
    /\ DistinctHostnames(servers)
    /\ CountOf(events, "request") = 3
    /\ servers[1].failureCount = 2
    /\ servers[2].failureCount = 1

\* C5: syncTime on a client that is not initialized returns the failure
\* "NTP client not initialized", sends no request and changes neither the
\* clock, nor the registry, nor any statistic.
C5_NotInitialized ==
    [][ (op'.name = "syncTime" /\ ~initialized) =>
          /\ ret' = [EmptyResult EXCEPT !.error = "NTP client not initialized"]
          /\ events' = <<>>
          /\ UNCHANGED fields ]_vars

\* C5 witness: syncTime after end, with a reachable server registered
C5_Witness ==
    /\ op.name = "syncTime"
    /\ ~initialized
    /\ ret.error = "NTP client not initialized"
    /\ syncFailures > 0
    /\ ReachableRecords # {}

-----------------------------------------------------------------------------
(* One exchange: callbacks, offset, clock, validation *)

\* the last request among ev and what the transport did with it
LastRequest(ev) == RequestsOf(ev)[Len(RequestsOf(ev))]
Answer == LastRequest(events).outcome

\* the Unix seconds a reply's transmit seconds stand for
Decoded(tx) == BigVal(U32Sub(tx, Big(2, 208988800)))

\* C6 as stated: on a successful synchronization with both callbacks set, the
\* sync callback is invoked first and the time-change callback second, each
\* once, both before the call returns.
C6_SyncCallbackFirst ==
    (Synchronized /\ ret.success /\ syncCallback /\ timeChangeCallback) =>
        /\ CountOf(events, "syncCallback") = 1
        /\ CountOf(events, "timeChangeCallback") = 1
        /\ FirstOf(events, "syncCallback") < FirstOf(events, "timeChangeCallback")
        /\ FirstOf(events, "timeChangeCallback") < Len(events)
        /\ events[Len(events)].ev = "returned"

\* C6 amended: on a successful synchronization with both callbacks set, the
\* time-change callback is invoked first, when the clock is set, and the sync
\* callback second, each once, both before the call returns.
C6_TimeChangeCallbackFirst ==
    (Synchronized /\ ret.success /\ syncCallback /\ timeChangeCallback) =>
        /\ CountOf(events, "syncCallback") = 1
        /\ CountOf(events, "timeChangeCallback") = 1
        /\ CountOf(events, "settimeofday") = 1
        /\ FirstOf(events, "settimeofday") < FirstOf(events, "timeChangeCallback")
        /\ FirstOf(events, "timeChangeCallback") < FirstOf(events, "syncCallback")
        /\ FirstOf(events, "syncCallback") < Len(events)
        /\ events[Len(events)].ev = "returned"

\* C6 witness: syncTime succeeds at its second attempt with both callbacks set
C6_Witness ==
    /\ op.name = "syncTime"
    /\ ret.success
    /\ syncCallback
    /\ timeChangeCallback
    /\ CountOf(events, "request") = 2

\* C7: the offset a successful synchronization reports is positive when the
\* time it decoded is ahead of the clock it read, and negative when behind.
C7_OffsetSign ==
    [][ (op'.name \in {"syncTime", "syncTimeFromServer"} /\ ret'.success) =>
          /\ ret'.syncTime > sysTime => ret'.offsetMs > 0
          /\ ret'.syncTime < sysTime => ret'.offsetMs < 0 ]_vars

\* C8 as stated, for a round trip of a second or more: the clock is set once,
\* to the decoded time plus half the round trip, and the result's time and
\* _lastSyncTime are the seconds set.
C8_ClockPlusHalfRoundTrip ==
    (Synchronized /\ ret.success /\ Answer.elapsed >= 1000) =>
        /\ CountOf(events, "settimeofday") = 1
        /\ LET set == events[FirstOf(events, "settimeofday")]
           IN  /\ (set.sec - Decoded(Answer.tx)) * 1000 + (set.usec \div 1000)
                      = Answer.elapsed \div 2
               /\ ret.syncTime = set.sec
               /\ lastSyncTime = set.sec

\* C8 amended: a successful synchronization sets the clock once, to the decoded
\* time plus the whole seconds of half the round trip, the round trip being the
\* elapsed milliseconds as a uint16_t, and to no fraction of a second; the
\* result's time and _lastSyncTime are the seconds set.
C8_ClockPlusWholeSeconds ==
    (Synchronized /\ ret.success) =>
        /\ CountOf(events, "settimeofday") = 1
        /\ LET set == events[FirstOf(events, "settimeofday")]
           IN  /\ set.sec = Decoded(Answer.tx) + ((Answer.elapsed % 65536) \div 2000)
               /\ set.usec = 0
               /\ sysTime = set.sec
               /\ ret.syncTime = set.sec
               /\ lastSyncTime = set.sec

\* C8 witness: 2024-01-01T00:00:10Z received after a round trip of 2 s sets the
\* clock a second later
C8_Witness ==
    /\ op.name = "syncTimeFromServer"
    /\ ret.success
    /\ Answer.tx = Big(3, 913056010)
    /\ Answer.elapsed = 2000
    /\ sysTime = 1704067211

\* C9: a reply is refused exactly when its transmit seconds are below 10^9 or
\* stand, after the 32-bit subtraction of 2208988800, for a time outside
\* 946684800 .. 2147483647; a refused reply makes the attempt fail with
\* "Invalid NTP packet received", counts as a failure of the server and leaves
\* the clock alone.
C9_RefusedReply ==
    [][ (op'.name = "syncTimeFromServer"
            /\ LastRequest(events').outcome.kind = "reply") =>
          LET tx == LastRequest(events').outcome.tx
              i  == FindServer(servers, op'.hostname, 1)
          IN  /\ RefusedSeconds(tx) <=> ~ret'.success
              /\ RefusedSeconds(tx) =>
                    /\ ret'.error = "Invalid NTP packet received"
                    /\ sysTime' = sysTime
                    /\ CountOf(events', "settimeofday") = 0
                    /\ i # 0 => servers'[i].failureCount = servers[i].failureCount + 1 ]_vars

\* C9 witness: transmit seconds 10^9, which the subtraction wraps past 2^31,
\* refused and booked on the registered server
C9_Witness ==
    /\ op.name = "syncTimeFromServer"
    /\ Answer.kind = "reply"
    /\ Answer.tx = Big(1, 0)
    /\ ret.error = "Invalid NTP packet received"
    /\ Target # 0
    /\ servers[Target].failureCount = 1
    /\ sysTime = 1704067200

-----------------------------------------------------------------------------
(* The running averages of a record *)

\* (9 * a + v) / 10 rounded toward zero, which is a + 0.1 * (v - a) truncated;
\* computed on the tens and units of a and v to stay within 32 bits
ExactAverage(a, v) ==
    LET units == 9 * (a % 10) + (v % 10)
        floor == 9 * (a \div 10) + (v \div 10) + (units \div 10)
    IN  IF floor < 0 /\ units % 10 # 0 THEN floor + 1 ELSE floor

\* C11: a record's first success sets its average offset and average round-trip
\* time to the observed values, and every later success moves each average a
\* to a + 0.1 * (v - a), truncated, v being the value observed, 0 included.
C11_RunningAverages ==
    [][(op'.name = "syncTimeFromServer" /\ ret'.success
            /\ FindServer(servers, op'.hostname, 1) # 0) =>
        LET i == FindServer(servers, op'.hostname, 1)
            before == servers[i]
            after == servers'[i]
        IN  IF before.lastSuccessTime = 0
            THEN /\ after.averageOffset = ret'.offsetMs
                 /\ after.averageRTT = ret'.roundTripMs
            ELSE /\ after.averageOffset =
                        ExactAverage(before.averageOffset, ret'.offsetMs)
                 /\ after.averageRTT =
                        ExactAverage(before.averageRTT, ret'.roundTripMs)]_vars

-----------------------------------------------------------------------------
(* The registry *)

\* C12: addServer of a pair that is registered returns true and leaves the
\* registry as it is, in a registry of any size, the full one included.
C12_DuplicateAddSucceeds ==
    [][(op'.name = "addServer"
            /\ Registered(servers, <<op'.hostname, op'.port>>)) =>
        (ret' = TRUE /\ servers' = servers)]_vars

\* C13: the registry never holds more than 10 records, and addServer of a pair
\* that is not registered on a registry of 10 records returns false and leaves
\* the registry as it is.
C13_AtMostTenRecords ==
    /\ [](Len(servers) <= 10)
    /\ [][(op'.name = "addServer" /\ Len(servers) = 10
              /\ ~Registered(servers, <<op'.hostname, op'.port>>)) =>
          (ret' = FALSE /\ servers' = servers)]_vars

\* a new pair has just been refused by a registry of 10 records
C13_Witness ==
    /\ op.name = "addServer"
    /\ ret = FALSE
    /\ Len(servers) = 10
    /\ ~Registered(servers, <<op.hostname, op.port>>)

\* C14: no two records of the registry have the same hostname and the same port.
C14_UniquePairs ==
    \A i, j \in 1..Len(servers) :
        (servers[i].hostname = servers[j].hostname
            /\ servers[i].port = servers[j].port) => i = j

\* addServer of a registered pair has returned true without appending, in a
\* registry that has two records of one hostname
C14_Witness ==
    /\ op.name = "addServer"
    /\ ret = TRUE
    /\ Len(servers) >= 2
    /\ <<servers[Len(servers)].hostname, servers[Len(servers)].port>>
           # <<op.hostname, op.port>>
    /\ \E i, j \in 1..Len(servers) :
          i # j /\ servers[i].hostname = servers[j].hostname

\* C15: removeServer(hostname) leaves exactly the records of other hostnames,
\* each as it was and in the order they had, and returns true when a record
\* had the hostname; when none had, it returns false and the registry is as
\* it was.
C15_RemoveServer ==
    [][(op'.name = "removeServer") =>
        LET keep == {i \in 1..Len(servers) : servers[i].hostname # op'.hostname}
        IN  /\ Len(servers') = Cardinality(keep)
            /\ \A i \in keep :
                  servers'[Cardinality({j \in keep : j <= i})] = servers[i]
            /\ ret' = (Cardinality(keep) # Len(servers))
            /\ (Cardinality(keep) = Len(servers)) => servers' = servers]_vars

\* removeServer has returned true and records of other hostnames are left
C15_Witness ==
    /\ op.name = "removeServer"
    /\ ret = TRUE
    /\ Len(servers) >= 2

\* C16: after resetStatistics every record has failure count 0, averages 0 and
\* is reachable, the global counters, the total and the average duration are
\* 0, and the registry has the same servers in the same order.
C16_ResetStatistics ==
    [][(op'.name = "resetStatistics") =>
        /\ Len(servers') = Len(servers)
        /\ \A i \in 1..Len(servers) :
              /\ servers'[i].hostname = servers[i].hostname
              /\ servers'[i].port = servers[i].port
              /\ servers'[i].failureCount = 0
              /\ servers'[i].averageOffset = 0
              /\ servers'[i].averageRTT = 0
              /\ servers'[i].reachable
        /\ syncCount' = 0
        /\ syncFailures' = 0
        /\ totalSyncTime' = 0
        /\ averageSyncTime'[1] \div averageSyncTime'[2] = 0]_vars

\* resetStatistics has been called on a registry with a record that had
\* synchronized
C16_Witness ==
    /\ op.name = "resetStatistics"
    /\ lastSyncTime # 0
    /\ \E i \in 1..Len(servers) : servers[i].lastSuccessTime # 0

-----------------------------------------------------------------------------
(* Polling *)

\* the call just made ran a synchronization: syncTime on an initialized client
\* ends with one more success or one more failure
SyncStarted == syncCount' + syncFailures' = syncCount + syncFailures + 1

\* C17: process() starts a synchronization exactly when the client is
\* initialized, auto-sync is enabled, and no synchronization has succeeded yet
\* or now - lastSyncTime >= interval; otherwise it changes nothing.
C17_ProcessTriggers ==
    [][(op'.name = "process") =>
        IF /\ initialized
           /\ autoSyncEnabled
           /\ (syncCount = 0 \/ sysTime - lastSyncTime >= autoSyncInterval)
        THEN SyncStarted
        ELSE /\ UNCHANGED <<fields, config, hooks>>
             /\ events' = <<>>]_vars

\* process() has synchronized again, the interval having passed since the
\* last synchronization
C17_Witness ==
    /\ op.name = "process"
    /\ syncCount = 2
    /\ \E k \in 1..Len(events) : events[k].ev = "request"

\* C18: the auto-sync interval is never below 60 seconds: setAutoSync stores
\* the greater of its argument and 60, enabling or disabling, and no other
\* call changes the interval.
C18_IntervalAtLeastMinute ==
    /\ [](autoSyncInterval >= 60)
    /\ [][IF op'.name = "setAutoSync"
          THEN autoSyncInterval' =
                   (IF op'.intervalSeconds < 60 THEN 60 ELSE op'.intervalSeconds)
          ELSE autoSyncInterval' = autoSyncInterval]_vars

\* setAutoSync has disabled auto-sync with an interval below 60
C18_Witness ==
    /\ op.name = "setAutoSync"
    /\ ~op.enable
    /\ op.intervalSeconds < 60
    /\ autoSyncInterval = 60

\* C19: when process() runs a synchronization and a sync callback is
\* registered, the callback is called with the outcome, success or failure.
C19_OutcomeReachesCallback ==
    [][(op'.name = "process" /\ SyncStarted /\ syncCallback) =>
        \E k \in 1..Len(events') : events'[k].ev = "syncCallback"]_vars

-----------------------------------------------------------------------------
(* The outcome returned *)

\* C20: every call of syncTime and of syncTimeFromServer returns an outcome
\* whose error text is empty when success is true and not empty when success
\* is false.
C20_ErrorIffFailure ==
    [][(op'.name \in {"syncTime", "syncTimeFromServer"}) =>
        /\ ret'.success \in BOOLEAN
        /\ ret'.success <=> (ret'.error = "")]_vars

\* syncTime has returned a failure, with its text, after an attempt that failed
C20_Witness ==
    /\ op.name = "syncTime"
    /\ ~ret.success
    /\ ret.error # ""
    /\ \E k \in 1..Len(events) : events[k].ev = "returned"

-----------------------------------------------------------------------------
(* The calendar and local time *)

\* the Gregorian rule, in arithmetic
Leap(y) == (y % 4 = 0 /\ y % 100 # 0) \/ y % 400 = 0

\* the days of month m of year y
GregorianDays(m, y) ==
    IF m \in {4, 6, 9, 11} THEN 30
    ELSE IF m = 2 THEN (IF Leap(y) THEN 29 ELSE 28)
    ELSE 31

\* the leap years before year y, counted from year 1
LeapsBefore(y) == (y - 1) \div 4 - (y - 1) \div 100 + (y - 1) \div 400

RECURSIVE DaysBeforeMonth(_, _)
DaysBeforeMonth(m, y) ==
    IF m = 1 THEN 0 ELSE DaysBeforeMonth(m - 1, y) + GregorianDays(m - 1, y)

\* the days from 1970-01-01 to day d of month m of year y, counted by years
\* and months
DayNumber(y, m, d) ==
    365 * (y - 1970) + LeapsBefore(y) - LeapsBefore(1970)
        + DaysBeforeMonth(m, y) + d - 1

\* the calendar year of the instant t
CalendarYear(t) ==
    CHOOSE y \in 1970..2037 :
        DayNumber(y, 1, 1) * 86400 <= t /\ t < DayNumber(y + 1, 1, 1) * 86400

\* C21: isDST(t) is false when the rule in force has DST off; otherwise, start
\* and end being the transitions of the calendar year of t, it is true
\* exactly when start <= t < end if start < end, and exactly when t >= start
\* or t < end if start >= end.
C21_DstActive ==
    (op.name = "isDST") =>
        LET t == op.timestamp
            y == CalendarYear(t)
            start == getDSTTransition(y, timezone.dstStartMonth, timezone.dstStartWeek,
                                      timezone.dstStartDayOfWeek, timezone.dstStartHour)
            end == getDSTTransition(y, timezone.dstEndMonth, timezone.dstEndWeek,
                                    timezone.dstEndDayOfWeek, timezone.dstEndHour)
        IN  IF ~timezone.useDST THEN ret = FALSE
            ELSE IF start < end THEN ret = (start <= t /\ t < end)
            ELSE ret = (t >= start \/ t < end)

\* isDST has answered true in January under the southern rule, whose DST
\* starts in October and ends in April
C21_Witness ==
    /\ op.name = "isDST"
    /\ timezone = Southern
    /\ op.timestamp = mktime(2024, 1, 15, 12)
    /\ ret = TRUE

\* C22: the instant getDSTTransition(year, month, week, weekday, hour) returns
\* is on a day of the month asked for, that day is the weekday asked for, and
\* it is the week-th such day of the month, the last one when week is 5.
C22_TransitionInMonth ==
    (op.name = "getDSTTransition") =>
        LET first == DayNumber(op.year, op.month, 1)
            next == first + GregorianDays(op.month, op.year)
            day == ret \div 86400
        IN  /\ first <= day /\ day < next
            /\ (day + 4) % 7 = op.dayOfWeek
            /\ IF op.week = 5 THEN day + 7 >= next
               ELSE (day - first) \div 7 + 1 = op.week

\* the last Sunday of February 2024 was asked for: the 25th, the fifth Sunday
\* counted from the first being 3 March
C22_Witness ==
    /\ op.name = "getDSTTransition"
    /\ op.year = 2024 /\ op.month = 2 /\ op.week = 5 /\ op.dayOfWeek = 0
    /\ ret \div 86400 = DayNumber(2024, 2, 25)

\* C23: getLocalTime is the UTC time plus 60 times the base offset minutes,
\* plus 60 times the DST offset minutes exactly when DST is active then; with
\* DST off it is the UTC time plus the base offset.
C23_LocalTime ==
    (op.name = "getLocalTime") =>
        /\ ret = sysTime + timezone.offsetMinutes * 60
                   + (IF isDST(timezone, sysTime)
                      THEN timezone.dstOffsetMinutes * 60 ELSE 0)
        /\ ~timezone.useDST => ret = sysTime + timezone.offsetMinutes * 60

\* getLocalTime has been asked in DST, under a rule with a DST offset
C23_Witness ==
    /\ op.name = "getLocalTime"
    /\ timezone = getTimeZoneCET
    /\ sysTime = mktime(2024, 7, 15, 12)
    /\ ret = sysTime + 7200

\* C24: daysInMonth(m, y) is the Gregorian day count of the month, February
\* having 29 days exactly in leap years, and isLeapYear(y) is true exactly
\* when y is divisible by 4 and not by 100, or by 400: 2000, 2020 and 2024
\* are leap years, 1900 and 2021 are not.
C24_GregorianCalendar ==
    /\ (op.name = "daysInMonth") => ret = GregorianDays(op.month, op.year)
    /\ (op.name = "isLeapYear") =>
          /\ ret = Leap(op.year)
          /\ op.year \in {2000, 2020, 2024} => ret = TRUE
          /\ op.year \in {1900, 2021} => ret = FALSE

\* daysInMonth has been asked for the February of a century year
C24_Witness ==
    /\ op.name = "daysInMonth"
    /\ op.month = 2
    /\ op.year = 1900
    /\ ret = 28

-----------------------------------------------------------------------------
(* The datagrams of an exchange *)

\* the last call was syncTimeFromServer and the wait for its reply saw one
\* datagram
OneDatagram ==
    /\ op.name = "syncTimeFromServer"
    /\ Answer.kind = "received"
    /\ Len(Answer.arrivals) = 1

\* floor(f * 1000000 / 2^32) for a 32-bit fraction f, on 16-bit halves:
\* 10^9 = 15258 * 2^16 + 51712 and 10^6 / 2^32 = 15625 / 2^26
MicrosOfFraction(f) ==
    LET lo == f[1] * 51712 + (f[2] % 65536)
        a == f[1] * 15258 + (f[2] \div 65536) + (lo \div 65536)
        b == lo % 65536
    IN  (a * 15625 + (b * 15625) \div 65536) \div 1024

\* x / n truncated toward zero
TruncDiv(x, n) == IF x >= 0 THEN x \div n ELSE -((-x) \div n)

\* C25: on a successful synchronization the result's syncUsec, and the
\* microseconds the clock is set to, are floor(fraction * 1000000 / 2^32) of
\* the reply's transmit fraction, a value in 0..999999 (0x80000000 gives
\* 500000, 0 gives 0, 0xFFFFFFFF gives 999999).
C25_MicrosFromFraction ==
    (OneDatagram /\ ret.success) =>
        LET usec == MicrosOfFraction(Answer.arrivals[1].txTm_f)
        IN  /\ usec \in 0..999999
            /\ MicrosOfFraction(HalfFraction) = 500000
            /\ MicrosOfFraction(NoFraction) = 0
            /\ MicrosOfFraction(MaxFraction) = 999999
            /\ ret.syncUsec = usec
            /\ events[FirstOf(events, "settimeofday")].usec = usec

\* C26: the offset reported is the server time minus the system time, both in
\* microseconds, divided by 1000 and truncated toward zero: a server at .600
\* against a system at .100 of the same second gives +500, the reverse -500.
\* (Stated for clocks less than 2000 s apart.)
C26_OffsetFromMicros ==
    [][ ( /\ op'.name = "syncTimeFromServer"
          /\ ret'.success
          /\ LastRequest(events').outcome.kind = "received"
          /\ Len(LastRequest(events').outcome.arrivals) = 1
          /\ ret'.syncTime - sysTime \in -2000..2000 ) =>
          LET o == LastRequest(events').outcome
              serverUsec == MicrosOfFraction(o.arrivals[1].txTm_f)
          IN  ret'.offsetMs =
                  TruncDiv((ret'.syncTime - sysTime) * 1000000
                               + serverUsec - o.clockUsec, 1000) ]_vars

\* C27: a client is constructed not initialized, with auto-sync disabled, a
\* sync count and a failure count of 0, an empty registry and the UTC time
\* zone (offset 0, DST off); begin changes the initialized flag and the local
\* port only, and adds no server.
C27_FreshClientAndBegin ==
    /\ ( /\ ~initialized
         /\ ~autoSyncEnabled
         /\ syncCount = 0
         /\ syncFailures = 0
         /\ servers = <<>>
         /\ timezone.offsetMinutes = 0
         /\ ~timezone.useDST )
    /\ [][ (op'.name = "begin") =>
             /\ initialized'
             /\ localPort' = op'.localPort
             /\ servers' = servers
             /\ UNCHANGED <<lastSyncTime, lastOffset, syncCount, syncFailures,
                            totalSyncTime, averageSyncTime, sysTime,
                            autoSyncEnabled, autoSyncInterval, timezone,
                            hooks>> ]_vars

\* begin has been called, with another port than the default, on a client
\* without servers
C27_Witness ==
    /\ op.name = "begin"
    /\ initialized
    /\ localPort = 2390
    /\ servers = <<>>

\* C28 as stated: a datagram is taken for the reply only when it is 48 bytes
\* long; with a datagram of any other length, shorter or longer, the attempt
\* fails.
C28_OnlyExactSize ==
    OneDatagram =>
        /\ ret.success => Answer.arrivals[1].size = 48
        /\ Answer.arrivals[1].size # 48 => ~ret.success

\* the datagrams of the last request that are long enough for a packet
LongEnough == {k \in 1..Len(Answer.arrivals) : Answer.arrivals[k].size >= 48}

\* C28 amended: a datagram is taken for the reply when it is at least 48 bytes
\* long, and its first 48 bytes are decoded; a shorter datagram is passed
\* over, and the attempt fails, with a timeout, when no datagram of at least
\* 48 bytes arrives before the timeout.
C28_AtLeastPacketSize ==
    (op.name = "syncTimeFromServer" /\ Answer.kind = "received") =>
        IF LongEnough = {}
        THEN /\ ~ret.success
             /\ ret.error = "Timeout waiting for NTP response"
             /\ CountOf(events, "settimeofday") = 0
        ELSE LET first == CHOOSE k \in LongEnough : \A j \in LongEnough : k <= j
                 reply == Answer.arrivals[first]
             IN  (Decoded(reply.txTm_s) \in 946684800..2147483647) =>
                     /\ ret.success
                     /\ ret.stratum = reply.stratum
                     /\ ret.syncTime = Decoded(reply.txTm_s)
                                           + ((Answer.elapsed % 65536) \div 2000)

\* a datagram of 68 bytes has been taken for the reply
C28_Witness ==
    /\ OneDatagram
    /\ Answer.arrivals[1].size = 68
    /\ ret.success
    /\ ret.syncTime = 1704067200

\* the NTP seconds of the Unix second t, modulo 2^32, for 0 <= t < 2^31
NtpSeconds(t) ==
    IF t >= 2085978496 THEN <<(t - 2085978496) \div 1000000000,
                              (t - 2085978496) % 1000000000>>
    ELSE LET r == (t % 1000000000) + 208988800
         IN  <<(t \div 1000000000) + 2 + (r \div 1000000000), r % 1000000000>>

\* C29: the first byte of every request has leap indicator 0, version 3 and
\* mode 3; the originate seconds are the Unix time plus 2208988800 modulo
\* 2^32; every other field is zero.
C29_RequestPacket ==
    [][ (op'.name = "syncTimeFromServer") =>
          LET packet == LastRequest(events').packet
          IN  /\ packet.li_vn_mode \div 64 = 0
              /\ (packet.li_vn_mode \div 8) % 8 = 3
              /\ packet.li_vn_mode % 8 = 3
              /\ packet.origTm_s = NtpSeconds(sysTime)
              /\ \A f \in DOMAIN packet \ {"li_vn_mode", "origTm_s"} :
                    packet[f] = 0 ]_vars

\* C30: a syncTime call whose attempts all fail adds to each record's failure
\* count the number of attempts made for that record, and leaves the records
\* it made no attempt for as they were, also when records share a hostname.
C30_FailureOnAttemptedRecord ==
    [][ (op'.name = "syncTime" /\ ~ret'.success /\ Len(servers') = Len(servers)) =>
          \A i \in 1..Len(servers) :
              IF AttemptsFor(events', i) = 0
              THEN servers'[i] = servers[i]
              ELSE servers'[i].failureCount =
                       servers[i].failureCount + AttemptsFor(events', i) ]_vars

-----------------------------------------------------------------------------
(* Where a request goes, and who may send one *)

\* C35: every request syncTime makes for a record of the registry goes to the
\* port stored in that record, whatever port addServer was given.
C35_RequestToRecordPort ==
    [][ (op'.name = "syncTime") =>
          \A k \in 1..Len(events') :
              events'[k].ev = "request" =>
                  events'[k].port = servers[events'[k].candidate].port ]_vars

\* C37: syncTimeFromServer on a client that is not initialized sends no
\* request and changes neither the clock, nor a record, nor a statistic.
C37_DirectCallNotInitialized ==
    [][ (op'.name = "syncTimeFromServer" /\ ~initialized) =>
          /\ CountOf(events', "request") = 0
          /\ ~ret'.success
          /\ UNCHANGED <<servers, sysTime, lastSyncTime, lastOffset, syncCount,
                         syncFailures, totalSyncTime, averageSyncTime>> ]_vars

-----------------------------------------------------------------------------
(* The callbacks *)

\* C36: whenever the time-change callback is invoked, by a synchronization,
\* by setEpochTime or by adjustTime, its first argument is the clock's time
\* right before the change and its second the time set.
C36_OldTimeBeforeChange ==
    [][ \A k \in 1..Len(events') :
           events'[k].ev = "timeChangeCallback" =>
               /\ events'[k].oldTime = sysTime
               /\ events'[k].newTime = sysTime' ]_vars

\* the callbacks invoked among the events ev
CallbacksIn(ev) ==
    {k \in 1..Len(ev) :
        ev[k].ev \in {"syncCallback", "timeChangeCallback", "rtcCallback"}}

\* the last request among the events ev, 0 if there is none
LastRequestAt(ev) ==
    IF CountOf(ev, "request") = 0 THEN 0
    ELSE CHOOSE k \in 1..Len(ev) :
            ev[k].ev = "request" /\ \A j \in (k + 1)..Len(ev) : ev[j].ev # "request"

\* C33: a failed attempt leaves the clock, _syncCount, _lastSyncTime and
\* _lastOffset as they were and invokes none of the sync, time-change and RTC
\* callbacks; _syncCount grows by one with each successful exchange and at no
\* other time.
C33_FailedAttemptChangesNothing ==
    /\ [][ (op'.name \in {"syncTime", "syncTimeFromServer"} /\ ~ret'.success) =>
             /\ UNCHANGED <<sysTime, syncCount, lastSyncTime, lastOffset>>
             /\ CallbacksIn(events') = {}
             /\ CountOf(events', "settimeofday") = 0 ]_vars
    /\ [][ (op'.name \in {"syncTime", "syncTimeFromServer"} /\ ret'.success) =>
             /\ syncCount' = syncCount + 1
             /\ CountOf(events', "settimeofday") = 1
             /\ \A k \in CallbacksIn(events') : k > LastRequestAt(events')
             /\ FirstOf(events', "settimeofday") > LastRequestAt(events') ]_vars
    /\ [][ (syncCount' > syncCount) =>
             /\ op'.name \in {"syncTime", "syncTimeFromServer"}
             /\ ret'.success ]_vars

\* with the three callbacks set and a synchronization done, a reply carrying
\* uptime has been refused
C33_Witness ==
    /\ op.name = "syncTimeFromServer"
    /\ ~ret.success
    /\ ret.error = "Invalid NTP packet received"
    /\ syncCallback /\ timeChangeCallback /\ rtcCallback
    /\ syncCount = 1
    /\ sysTime = lastSyncTime

\* C34: an attempt uses a reply only if the reply answers the request of that
\* attempt: the reply to an earlier request of the call, which timed out, is
\* neither taken for a success of a later attempt nor used to set the clock.
C34_ReplyAnswersItsRequest ==
    (op.name = "syncTime" /\ CountOf(events, "request") > 0
        /\ Answer.kind = "received") =>
        LET late == Answer.arrivals[1].request # CountOf(events, "request")
        IN  late => (~ret.success /\ CountOf(events, "settimeofday") = 0)

-----------------------------------------------------------------------------
(* The order of the attempts *)

\* the results the attempts among the events ev returned, in order
ReturnsOf(ev) == SelectSeq(ev, LAMBDA e : e.ev = "returned")

\* record i of the registry svs is still reachable when the pass over the
\* registry comes to it, the first attempt having been made for record best
\* and having failed (the hostnames being pairwise different)
ReachableWhenVisited(svs, i, best) ==
    /\ svs[i].reachable
    /\ svs[i].failureCount + (IF best = i THEN 1 ELSE 0) < 3

\* C31: a syncTime call on an initialized client makes its first attempt for
\* the best server, then one for every server reachable when the pass over
\* the registry comes to it, in the order of registration, the best server
\* included; every attempt has the timeout of the call; the call stops at the
\* first success, makes at most 1 + N attempts for N servers, and returns.
C31_AttemptOrder ==
    [][ (op'.name = "syncTime" /\ "timeoutMs" \in DOMAIN op' /\ initialized) =>
          LET reqs == RequestsOf(events')
              rets == ReturnsOf(events')
              n == Len(reqs)
              best == getBestServer(servers)
              last == IF n = 0 THEN 0 ELSE reqs[n].candidate
              passed == {reqs[k].candidate : k \in 2..n}
          IN  /\ n <= 1 + Len(servers)
              /\ Len(rets) = n
              /\ (n = 0) <=> (best = 0)
              /\ n > 0 => reqs[1].candidate = best
              /\ \A k \in 1..n : reqs[k].timeoutMs = op'.timeoutMs
              /\ \A j, k \in 2..n : j < k => reqs[j].candidate < reqs[k].candidate
              /\ \A k \in 1..(n - 1) : ~rets[k].result.success
              /\ ret'.success <=> (n > 0 /\ rets[n].result.success)
              /\ ret'.success /\ n = 1 => passed = {}
              /\ ret'.success /\ n > 1 =>
                    passed = {i \in 1..last : ReachableWhenVisited(servers, i, best)}
              /\ ~ret'.success =>
                    passed = {i \in 1..Len(servers) :
                                 ReachableWhenVisited(servers, i, best)} ]_vars

\* after the attempt for the best server "a" and the one for "a" on the way
\* through the registry failed, the attempt for "b" succeeded
C31_Witness ==
    /\ op.name = "syncTime"
    /\ CountOf(events, "request") = 3
    /\ RequestsOf(events)[1].candidate = 1
    /\ RequestsOf(events)[3].candidate = 2
    /\ RequestsOf(events)[3].timeoutMs = 1000
    /\ ret.success
    /\ ret.serverUsed = "b"

\* no record of the registry is reachable
NoneReachable(svs) == \A i \in 1..Len(svs) : ~svs[i].reachable

====
